---- MODULE Spec2Model ----
(***************************************************************************)
(* A model of the WHILE toolchain core: the recursive-descent parser with  *)
(* error recovery (token cursor, expression / statement / block / program  *)
(* parsers) and the explicit-stack interpreter.                            *)
(*                                                                         *)
(* Conventions.                                                            *)
(*   - JavaScript `null` is the record Null; every AST node, token and     *)
(*     frame is a record with a `type` field.                              *)
(*   - A binary tree is <<>> (nil) or the pair <<left, right>>.            *)
(*   - A token's `value` is its lexeme; the numeric value of a number      *)
(*     token is NumValue(value).                                           *)
(*   - Every parser function takes the StateManager record `st` and        *)
(*     returns a record holding the updated StateManager together with     *)
(*     the function's results.                                             *)
(*   - The StateManager record carries `loops`, the history of the loop    *)
(*     iterations made on it: for each iteration, the loop it belongs to   *)
(*     and the number of tokens the queue held when it began.              *)
(***************************************************************************)
EXTENDS Integers, Sequences, FiniteSets, TLC

\* ------------------------------------------------------------------------
\* Bounds of the model
\* ------------------------------------------------------------------------
\* Number of fragments a generated program body is made of.
MaxChunks == 2
\* Length of the token lists drawn freely from the whole vocabulary.
MaxFree == 2
\* Number of parser() calls made on one token list object.
MaxCalls == 2
\* Number of run() calls made on one Interpreter instance.
MaxRuns == 2
\* Number of command-stack iterations one run() may take in the model.
MaxSteps == 8

\* ------------------------------------------------------------------------
\* Tokens
\* ------------------------------------------------------------------------
TKN_ASSGN == ":="
TKN_BLOCK_CLS == "}"
TKN_BLOCK_OPN == "{"
TKN_ELSE == "else"
TKN_HD == "hd"
TKN_IF == "if"
TKN_PREN_CLS == ")"
TKN_PREN_OPN == "("
TKN_READ == "read"
TKN_SEP == ";"
TKN_TL == "tl"
TKN_WHILE == "while"
TKN_WRITE == "write"
TKN_CASE == "case"
TKN_COLON == ":"
TKN_DEFAULT == "default"
TKN_SWITCH == "switch"

Null == [type |-> "null"]

OK == "OK"
ERROR == "ERROR"
EOI == "EOI"

\* The lexeme class of a lexeme, as the lexer assigns it.
TokenType(v) ==
  IF v \in {"hd", "tl", "cons"} THEN "operation"
  ELSE IF v \in {"0", "1", "2"} THEN "number"
  ELSE IF v \in {"X", "Y", "Z", "XY", "p", "add", "nil"} THEN "identifier"
  ELSE IF v \in {"read", "write", "if", "else", "while"} THEN "expression"
  ELSE "symbol"

\* The number a number token carries.
NumValue(v) == IF v = "0" THEN 0 ELSE IF v = "1" THEN 1 ELSE 2

RECURSIVE Lex(_, _)
\* The token list of a sequence of lexemes written on one row, one space apart.
Lex(lexemes, col) ==
  IF lexemes = <<>> THEN <<>>
  ELSE <<[type |-> TokenType(Head(lexemes)), value |-> Head(lexemes),
          pos |-> [row |-> 0, col |-> col]]>>
       \o Lex(Tail(lexemes), col + Len(Head(lexemes)) + 1)

\* ------------------------------------------------------------------------
\* Positions and the error registry
\* ------------------------------------------------------------------------
incrementPos(pos, str) == [pos EXCEPT !.col = @ + Len(str)]

addErrorAt(st, position, msg) ==
  [st EXCEPT !.errors = Append(@, [position |-> position, message |-> msg])]

RECURSIVE Join(_)
Join(expected) ==
  IF Len(expected) = 1 THEN expected[1]
  ELSE expected[1] \o "\", \"" \o Join(Tail(expected))

\* ErrorManager.unexpectedValue: actual = "" stands for an absent `actual`.
unexpectedValueAt(st, position, type, actual, expected) ==
  LET head == "Unexpected " \o type
      msg == IF Len(expected) = 0
             THEN (IF actual # "" THEN head \o ": \"" \o actual \o "\"" ELSE head)
             ELSE (IF actual # "" THEN head \o " \"" \o actual \o "\"" ELSE head)
                  \o (IF Len(expected) = 1
                      THEN ": Expected \"" \o expected[1] \o "\""
                      ELSE ": Expected one of \"" \o Join(expected) \o "\"")
  IN addErrorAt(st, position, msg)

unexpectedTokenAt(st, position, actual, expected) ==
  unexpectedValueAt(st, position, "token", actual, expected)

\* ------------------------------------------------------------------------
\* StateManager: the token cursor
\* ------------------------------------------------------------------------
\* new StateManager(tokens): the queue IS the caller's list.
NewStateManager(tokens) ==
  [tokens |-> tokens, errors |-> <<>>, pos |-> [row |-> 0, col |-> 0],
   lastToken |-> Null, raised |-> FALSE, loops |-> <<>>]

addError(st, msg) == addErrorAt(st, st.pos, msg)
unexpectedValue(st, type, actual, expected) ==
  unexpectedValueAt(st, st.pos, type, actual, expected)
unexpectedToken(st, actual, expected) ==
  unexpectedTokenAt(st, st.pos, actual, expected)
unexpectedEOI(st, expected) ==
  unexpectedValueAt(st, st.pos, "end of input", "", expected)
unexpectedEOICustom(st, msg) ==
  addErrorAt(st, st.pos, "Unexpected end of input: " \o msg)
unexpectedTokenCustom(st, actual, msg) ==
  IF actual # ""
  THEN addErrorAt(st, st.pos, "Unexpected token \"" \o actual \o "\": " \o msg)
  ELSE addErrorAt(st, st.pos, "Unexpected token: " \o msg)

\* StateManager._next: shift the queue and move the position counter.
next(st) ==
  IF st.tokens # <<>>
  THEN LET first == Head(st.tokens)
       IN [st |-> [st EXCEPT !.tokens = Tail(@), !.pos = first.pos,
                             !.lastToken = first],
           tok |-> first]
  ELSE [st |-> [st EXCEPT !.pos =
                  IF st.lastToken = Null THEN incrementPos(@, "")
                  ELSE incrementPos(@, st.lastToken.value)],
        tok |-> Null]

peek(st) == IF st.tokens = <<>> THEN Null ELSE Head(st.tokens)

InSeq(v, s) == \E i \in 1..Len(s) : s[i] = v

\* StateManager.expect, from the outcome n of _next on.
expectFirst(n, expected) ==
  LET first == n.tok
  IN IF first = Null
     THEN [st |-> unexpectedEOI(n.st, expected), status |-> EOI, tok |-> Null]
     ELSE IF Len(expected) = 0 \/ InSeq(first.value, expected)
     THEN [st |-> n.st, status |-> OK, tok |-> first]
     ELSE [st |-> unexpectedToken(n.st, first.value, expected),
           status |-> ERROR, tok |-> first]

\* An expect that leaves a token it does not accept in the queue.
expectKeepsOffender(st, expected) ==
  IF st.tokens # <<>> /\ Len(expected) # 0 /\ ~InSeq(Head(st.tokens).value, expected)
  THEN [st |-> unexpectedToken(st, Head(st.tokens).value, expected),
        status |-> ERROR, tok |-> Head(st.tokens)]
  ELSE expectFirst(next(st), expected)

\* StateManager.expect
expect(st, expected) == expectFirst(next(st), expected)

\* An iteration of the loop `loop` begins: its body is entered and its
\* exit tests on the token at hand, if it has any, have not left the loop.
iteration(st, loop) ==
  [st EXCEPT !.loops = Append(@, [loop |-> loop, left |-> Len(st.tokens)])]

RECURSIVE consumeUntil(_, _)
\* StateManager.consumeUntil: only the updated cursor is used by the callers.
consumeUntil(st, expected) ==
  LET nxt == peek(st)
  IN IF nxt = Null THEN st
     ELSE IF InSeq(nxt.value, expected) THEN st
     ELSE consumeUntil(next(iteration(st, "consumeUntil")).st, expected)

RECURSIVE call(_, _, _)
\* call(f, st, opts) is the call f(st, opts) of one of the mutually recursive
\* parser functions _readExpr, _readStmt, _readBlock and _readStatementList.

\* Reading a property of `v`: a TypeError is raised when v is null.
read(st, v) == IF v = Null THEN [st EXCEPT !.raised = TRUE] ELSE st

\* ------------------------------------------------------------------------
\* Expression parser
\* ------------------------------------------------------------------------
RECURSIVE _numToTree(_)
_numToTree(n) == IF n > 0 THEN <<<<>>, _numToTree(n - 1)>> ELSE <<>>

opNode(complete, op, args) ==
  [type |-> "operation", complete |-> complete, op |-> op, args |-> args]

\* The hd / tl node as built when the test for a missing argument is left
\* out: the type of a null argument is read.
hdtlNodeUnguarded(st, first, arg) ==
  IF arg # Null /\ (arg.type = "identifier" \/ arg.type = "tree" \/ arg.complete)
  THEN [st |-> read(st, arg), node |-> opNode(TRUE, first, <<arg>>)]
  ELSE [st |-> read(st, arg), node |-> opNode(FALSE, first, <<arg>>)]

\* _readExpr, the hd / tl node built from the parsed argument.
hdtlNode(st, first, arg) ==
  IF arg = Null
  THEN [st |-> st, node |-> opNode(FALSE, first, <<arg>>)]
  ELSE IF arg.type = "identifier" \/ arg.type = "tree" \/ arg.complete
  THEN [st |-> read(st, arg), node |-> opNode(TRUE, first, <<arg>>)]
  ELSE [st |-> read(st, arg), node |-> opNode(FALSE, first, <<arg>>)]

\* _readExpr, the cons node built from the two parsed arguments.
consNode(st, first, left, right) ==
  IF \/ left = Null
     \/ right = Null
     \/ ((left.type = "operation" \/ left.type = "equal") /\ ~left.complete)
     \/ ((right.type = "operation" \/ right.type = "equal") /\ ~right.complete)
  THEN [st |-> st, node |-> opNode(FALSE, first, <<left, right>>)]
  ELSE [st |-> read(read(st, left), right),
        node |-> opNode(TRUE, first, <<left, right>>)]

\* The branch for a literal when the dialect option is not consulted.
literalNodeUngated(st, first, opts) ==
  IF first.type = "number"
  THEN [st |-> st, node |-> [type |-> "tree", tree |-> _numToTree(NumValue(first.value))]]
  ELSE [st |-> unexpectedTokenCustom(st, first.value,
                                     "Expected an expression or an identifier"),
        node |-> Null]

\* _readExpr, the branch taken for a token that is neither `(`, an
\* operation nor an identifier.
literalNode(st, first, opts) ==
  IF ~opts.pureOnly /\ first.type = "number"
  THEN [st |-> st, node |-> [type |-> "tree", tree |-> _numToTree(NumValue(first.value))]]
  ELSE [st |-> unexpectedTokenCustom(st, first.value,
                                     "Expected an expression or an identifier"),
        node |-> Null]

_readExpr(st, opts) ==
  LET n == next(st)
      first == n.tok
  IN IF first = Null THEN [st |-> n.st, node |-> Null]
     ELSE IF first.value = TKN_PREN_OPN
     THEN LET e == call("_readExpr", n.st, opts)
              c == next(e.st)
              close == c.tok
          IN [st |-> IF close = Null THEN unexpectedEOI(c.st, <<TKN_PREN_CLS>>)
                     ELSE IF close.value = TKN_PREN_CLS THEN c.st
                     ELSE unexpectedToken(c.st, close.value, <<TKN_PREN_CLS>>),
              node |-> e.node]
     ELSE IF first.type = "operation"
     THEN IF first.value = TKN_HD \/ first.value = TKN_TL
          THEN LET a == call("_readExpr", n.st, opts)
               IN hdtlNode(a.st, first, a.node)
          ELSE LET l == call("_readExpr", n.st, opts)
                   r == call("_readExpr", l.st, opts)
               IN consNode(r.st, first, l.node, r.node)
     ELSE IF first.type = "identifier"
     THEN [st |-> n.st, node |-> first]
     ELSE literalNode(n.st, first, opts)

\* ------------------------------------------------------------------------
\* Statement, block and switch parsers
\* ------------------------------------------------------------------------
RECURSIVE statementListLoop(_, _, _, _)
RECURSIVE switchLoop(_, _, _, _, _)

\* The test _readStmt, _readCase apply to a parsed expression.
exprComplete(e) == e.type = "identifier" \/ e.type = "tree" \/ e.complete

\* An else reader that takes the absent `else` for an error.
_readElseRequired(st, opts) ==
  LET pk == peek(st)
  IN IF pk = Null
     THEN [st |-> unexpectedEOI(st, <<TKN_BLOCK_CLS>>), status |-> EOI, list |-> <<>>]
     ELSE IF pk.value = TKN_ELSE
     THEN call("_readBlock", next(st).st, opts)
     ELSE [st |-> unexpectedToken(st, pk.value, <<TKN_ELSE>>),
           status |-> ERROR, list |-> <<>>]

_readElse(st, opts) ==
  LET pk == peek(st)
  IN IF pk = Null
     THEN [st |-> unexpectedEOI(st, <<TKN_BLOCK_CLS>>), status |-> EOI, list |-> <<>>]
     ELSE IF pk.value = TKN_ELSE
     THEN call("_readBlock", next(st).st, opts)
     ELSE [st |-> st, status |-> OK, list |-> <<>>]

\* _readStatementList, from the peek that follows a statement to the end
\* of the loop body.
afterStatement(st, opts, status, res) ==
  LET nxt == peek(st)
  IN IF nxt = Null
     THEN [st |-> unexpectedEOI(next(st).st, <<TKN_SEP, TKN_BLOCK_CLS>>),
           status |-> EOI, list |-> res]
     ELSE IF nxt.value = TKN_SEP
     THEN statementListLoop(next(st).st, opts, status, res)
     ELSE [st |-> st, status |-> status, list |-> res]

\* _readStatementList, one iteration of its loop.
statementListLoop(st, opts, status, res0) ==
  LET s == call("_readStmt", iteration(st, "_readStatementList"), opts)
      res == Append(res0, s.node)
  IN IF s.status = EOI
     THEN [st |-> s.st, status |-> EOI, list |-> res]
     ELSE IF s.status = ERROR
     THEN afterStatement(consumeUntil(s.st, <<TKN_BLOCK_CLS, TKN_SEP>>), opts, ERROR, res)
     ELSE afterStatement(s.st, opts, status, res)

_readStatementList(st, opts) == statementListLoop(st, opts, OK, <<>>)

_readCase(st, opts) ==
  LET n == next(st)
      caseTkn == n.tok
  IN IF caseTkn = Null THEN [st |-> n.st, status |-> EOI, node |-> Null]
     ELSE IF caseTkn.value = TKN_DEFAULT
     THEN LET b == call("_readStatementList", expect(n.st, <<TKN_COLON>>).st, opts)
          IN [st |-> b.st, status |-> b.status,
              node |-> [type |-> "switch_default", complete |-> (b.status = OK),
                        body |-> b.list]]
     ELSE IF caseTkn.value = TKN_CASE
     THEN LET e == call("_readExpr", n.st, opts)
              expr == e.node
          IN IF expr = Null THEN [st |-> e.st, status |-> EOI, node |-> Null]
             ELSE LET status == IF ~exprComplete(expr) THEN ERROR ELSE OK
                      b == call("_readStatementList", expect(read(e.st, expr), <<TKN_COLON>>).st, opts)
                  IN [st |-> b.st, status |-> b.status,
                      node |-> [type |-> "switch_case",
                                complete |-> (b.status = OK /\ status = OK),
                                cond |-> expr, body |-> b.list]]
     ELSE [st |-> unexpectedToken(n.st, caseTkn.value, <<TKN_CASE, TKN_DEFAULT>>),
           status |-> ERROR, node |-> Null]

\* _readSwitch, one iteration of the clause loop from the outcome c of
\* _readCase on.
switchClause(c, opts, status, cases, dflt) ==
  LET status1 == IF status # OK THEN c.status ELSE status
  IN IF status1 = EOI \/ c.node = Null
     THEN [st |-> c.st, status |-> status1, cases |-> cases, dflt |-> dflt]
     ELSE IF c.node.type = "switch_case"
     THEN switchLoop(read(c.st, c.node), opts, status1, Append(cases, c.node), dflt)
     ELSE switchLoop(read(c.st, c.node), opts, status1, cases, c.node)

\* A clause loop that, on a clause following the default clause, records
\* the diagnostic and goes round again with the clause still in the queue.
switchLoopRetrying(st, opts, status, cases, dflt) ==
  LET nxt == peek(st)
  IN IF nxt = Null
     THEN [st |-> st, status |-> status, cases |-> cases, dflt |-> dflt]
     ELSE IF nxt.value # TKN_DEFAULT /\ nxt.value # TKN_CASE
     THEN [st |-> st, status |-> status, cases |-> cases, dflt |-> dflt]
     ELSE IF dflt # Null
     THEN switchLoop(unexpectedToken(iteration(st, "_readSwitch"),
                                     nxt.value, <<TKN_BLOCK_CLS>>),
                     opts, status, cases, Null)
     ELSE switchClause(_readCase(iteration(st, "_readSwitch"), opts),
                       opts, status, cases, dflt)

\* _readSwitch, the loop reading the clauses.
switchLoop(st, opts, status, cases, dflt) ==
  LET nxt == peek(st)
  IN IF nxt = Null
     THEN [st |-> st, status |-> status, cases |-> cases, dflt |-> dflt]
     ELSE IF nxt.value # TKN_DEFAULT /\ nxt.value # TKN_CASE
     THEN [st |-> st, status |-> status, cases |-> cases, dflt |-> dflt]
     ELSE switchClause(_readCase(IF dflt # Null
                                 THEN unexpectedToken(iteration(st, "_readSwitch"),
                                                      nxt.value, <<TKN_BLOCK_CLS>>)
                                 ELSE iteration(st, "_readSwitch"), opts),
                       opts, status, cases, dflt)

\* _readSwitch, the node built from the condition, the outcome l of the
\* clause loop and the outcome c of expecting the closing brace.
switchNode(inpExpr, l, c) ==
  LET dflt == IF l.dflt # Null THEN l.dflt
              ELSE [type |-> "switch_default", complete |-> TRUE, body |-> <<>>]
      status == IF c.status # OK THEN c.status ELSE l.status
  IN [st |-> c.st, status |-> status,
      node |-> [type |-> "switch", complete |-> (status = OK),
                condition |-> inpExpr, cases |-> l.cases, default |-> dflt]]

\* _readSwitch, from the end of the clause loop on.
switchClose(inpExpr, l) == switchNode(inpExpr, l, expect(l.st, <<TKN_BLOCK_CLS>>))

\* _readSwitch, from the outcome o of expecting the opening brace on.
switchClauses(inpExpr, o, opts) ==
  IF o.status = EOI THEN [st |-> o.st, status |-> EOI, node |-> Null]
  ELSE switchClose(inpExpr, switchLoop(o.st, opts, o.status, <<>>, Null))

_readSwitch(st, opts) ==
  LET e == call("_readExpr", st, opts)
  IN switchClauses(e.node, expect(e.st, <<TKN_BLOCK_OPN>>), opts)

\* _readStmt, the `if` branch after the `if` token.
readIf(st, opts) ==
  LET c == call("_readExpr", st, opts)
      cond == c.node
      i == call("_readBlock", c.st, opts)
      e == _readElse(i.st, opts)
      ok == cond # Null /\ exprComplete(cond) /\ i.status = OK /\ e.status = OK
  IN [st |-> IF cond = Null THEN e.st ELSE read(e.st, cond),
      status |-> IF ok THEN OK ELSE ERROR,
      node |-> [type |-> "cond", complete |-> ok, condition |-> cond,
                if |-> i.list, else |-> e.list]]

\* _readStmt, the `while` branch after the `while` token.
readWhile(st, opts) ==
  LET c == call("_readExpr", st, opts)
      cond == c.node
      b == call("_readBlock", c.st, opts)
      ok == b.status = OK /\ cond # Null
  IN [st |-> b.st,
      status |-> IF ok THEN OK ELSE IF b.status = EOI THEN EOI ELSE ERROR,
      node |-> [type |-> "loop", complete |-> ok, condition |-> cond,
                body |-> b.list]]

\* _readStmt, the assignment branch after the identifier token.
readAssign(st, opts, first) ==
  LET v == call("_readExpr", expect(st, <<TKN_ASSGN>>).st, opts)
      val == v.node
      ok == val # Null /\ exprComplete(val)
  IN [st |-> IF val = Null THEN v.st ELSE read(v.st, val),
      status |-> IF ok THEN OK ELSE ERROR,
      node |-> [type |-> "assign", complete |-> ok, ident |-> first, arg |-> val]]

_readStmt(st, opts) ==
  LET n == next(st)
      first == n.tok
  IN IF first = Null THEN [st |-> n.st, status |-> EOI, node |-> Null]
     ELSE IF first.value = TKN_IF THEN readIf(n.st, opts)
     ELSE IF first.value = TKN_WHILE THEN readWhile(n.st, opts)
     ELSE IF first.type = "identifier" THEN readAssign(n.st, opts, first)
     ELSE IF ~opts.pureOnly /\ first.value = TKN_SWITCH THEN _readSwitch(n.st, opts)
     ELSE [st |-> unexpectedTokenCustom(n.st, "",
                    "Expected if while or an assignment statement"),
           status |-> ERROR, node |-> Null]

_readBlock(st, opts) ==
  LET o == expect(st, <<TKN_BLOCK_OPN>>)
      first == peek(o.st)
  IN IF first = Null
     THEN [st |-> unexpectedEOI(next(o.st).st, <<TKN_BLOCK_CLS>>),
           status |-> EOI, list |-> <<>>]
     ELSE IF first.value = TKN_BLOCK_CLS
     THEN [st |-> next(o.st).st, status |-> OK, list |-> <<>>]
     ELSE LET l == call("_readStatementList", o.st, opts)
          IN IF l.status = EOI THEN l
             ELSE LET c == expect(l.st, <<TKN_BLOCK_CLS>>)
                  IN [st |-> c.st,
                      status |-> IF c.status = EOI THEN EOI
                                 ELSE IF l.status = OK /\ c.status = OK THEN OK
                                 ELSE ERROR,
                      list |-> l.list]

call(f, st, opts) ==
  IF f = "_readExpr" THEN _readExpr(st, opts)
  ELSE IF f = "_readBlock" THEN _readBlock(st, opts)
  ELSE IF f = "_readStmt" THEN _readStmt(st, opts)
  ELSE _readStatementList(st, opts)

\* ------------------------------------------------------------------------
\* Program parser
\* ------------------------------------------------------------------------
\* _readProgramIntro._readInput
_readInput(st) ==
  LET input == peek(st)
  IN IF input = Null
     THEN [st |-> unexpectedEOICustom(next(st).st, "Missing input variable"),
           status |-> EOI, ident |-> Null]
     ELSE IF input.value = TKN_BLOCK_OPN
     THEN [st |-> addErrorAt(st, input.pos,
                    "Unexpected token \"" \o input.value \o "\": Missing input variable"),
           status |-> ERROR, ident |-> Null]
     ELSE IF input.type = "identifier"
     THEN [st |-> next(st).st, status |-> OK, ident |-> input]
     ELSE [st |-> next(st).st, status |-> ERROR, ident |-> Null]

\* _readProgramIntro._readRead
_readRead(st) ==
  LET rd == peek(st)
  IN IF rd = Null
     THEN [st |-> unexpectedEOI(next(st).st, <<TKN_READ>>),
           status |-> EOI, ident |-> Null]
     ELSE IF rd.value = TKN_READ
     THEN _readInput(next(st).st)
     ELSE IF rd.value = TKN_BLOCK_OPN
     THEN [st |-> unexpectedTokenAt(st, rd.pos, "", <<TKN_READ>>),
           status |-> ERROR, ident |-> Null]
     ELSE [st |-> unexpectedToken(next(st).st, rd.value, <<TKN_READ>>),
           status |-> ERROR,
           ident |-> IF rd.type = "identifier" THEN rd ELSE Null]

_readProgramIntro(st) ==
  LET name == peek(st)
  IN IF name = Null
     THEN [st |-> unexpectedEOICustom(next(st).st, "Missing program name"),
           status |-> EOI, name |-> Null, input |-> Null]
     ELSE IF name.value = TKN_READ
     THEN LET i == _readInput(addErrorAt(next(st).st, name.pos,
                                         "Unexpected token: Missing program name"))
          IN [st |-> i.st, status |-> IF i.status = OK THEN OK ELSE ERROR,
              name |-> Null, input |-> i.ident]
     ELSE IF name.value = TKN_BLOCK_OPN
     THEN [st |-> unexpectedTokenAt(
                    addErrorAt(st, name.pos, "Unexpected token: Missing program name"),
                    name.pos, "", <<TKN_READ>>),
           status |-> ERROR, name |-> Null, input |-> Null]
     ELSE LET r == _readRead(next(st).st)
          IN IF name.type # "identifier"
             THEN [st |-> r.st, status |-> ERROR, name |-> Null, input |-> r.ident]
             ELSE [st |-> r.st, status |-> r.status, name |-> name, input |-> r.ident]

_readProgramOutro(st) ==
  LET w == next(st)
      write == w.tok
  IN IF write = Null
     THEN [st |-> unexpectedEOI(w.st, <<TKN_WRITE>>), status |-> EOI, ident |-> Null]
     ELSE LET isWrite == write.value = TKN_WRITE
              isIdent == ~isWrite /\ write.type = "identifier"
              st1 == IF isWrite THEN w.st
                     ELSE IF isIdent THEN unexpectedToken(w.st, write.value, <<TKN_WRITE>>)
                     ELSE unexpectedValue(w.st, write.type, write.value, <<TKN_WRITE>>)
              err1 == IF isWrite THEN OK ELSE ERROR
              output1 == IF isIdent THEN write ELSE Null
              o == next(st1)
              outputVar == o.tok
          IN IF outputVar = Null
             THEN [st |-> unexpectedEOI(o.st, <<"identifier">>), status |-> EOI,
                   ident |-> output1]
             ELSE IF outputVar.type = "identifier"
             THEN [st |-> o.st, status |-> err1, ident |-> outputVar]
             ELSE [st |-> unexpectedTokenCustom(o.st, outputVar.value,
                                                " Expected an identifier"),
                   status |-> ERROR, ident |-> output1]

\* _readProgram, the end-of-input test after the body b and the outro o.
readFinal(b, o) ==
  LET f == next(o.st)
  IN [st |-> IF f.tok # Null
             THEN unexpectedTokenCustom(f.st, f.tok.value, "Expected end of input")
             ELSE f.st,
      bodyStatus |-> b.status, body |-> b.list,
      outputStatus |-> o.status, output |-> o.ident]

\* _readProgram, from the outcome b of reading the body on.
readOutro(b) ==
  IF b.status = EOI
  THEN [st |-> b.st, bodyStatus |-> b.status, body |-> b.list,
        outputStatus |-> OK, output |-> Null]
  ELSE readFinal(b, _readProgramOutro(b.st))

\* _readProgram, the part run when the intro did not hit the end of input:
\* the body, then the outro and the end-of-input test.
readBodyAndOutro(st, opts) == readOutro(call("_readBlock", st, opts))

\* _readProgram, the completeness test of the program node.
programComplete(name, input, output, bodyStatus, progInStatus, outputStatus) ==
  /\ name # Null
  /\ input # Null
  /\ output # Null
  /\ bodyStatus = OK
  /\ progInStatus = OK
  /\ outputStatus = OK

\* _readProgram, the node built from the outcome i of the intro and the
\* outcome r of the body and outro.
programNode(i, r) ==
  [st |-> r.st,
   prog |-> [type |-> "program",
             complete |-> programComplete(i.name, i.input, r.output,
                                          r.bodyStatus, i.status, r.outputStatus),
             input |-> i.input, output |-> r.output, name |-> i.name,
             body |-> r.body]]

\* _readProgram, from the outcome i of the intro on.
readAfterIntro(i, opts) ==
  programNode(i, IF i.status # EOI THEN readBodyAndOutro(i.st, opts)
                 ELSE [st |-> i.st, bodyStatus |-> OK, body |-> <<>>,
                       outputStatus |-> OK, output |-> Null])

_readProgram(st, opts) == readAfterIntro(_readProgramIntro(st), opts)

\* What a parser() call leaves: `raised` tells that the call ended in an
\* exception; `tokens` is the caller's list as the call leaves it.
parserReturn(r) ==
  [ast |-> r.prog, errors |-> r.st.errors, raised |-> r.st.raised,
   tokens |-> r.st.tokens, loops |-> r.st.loops]

parser(tokens, props) ==
  parserReturn(_readProgram(NewStateManager(tokens),
                            [pureOnly |-> IF props.pureOnly THEN TRUE ELSE FALSE]))

\* ------------------------------------------------------------------------
\* Interpreter: expression evaluation
\* ------------------------------------------------------------------------
nil == <<>>

\* A lookup whose fallback for an unbound name is not nil.
storeGetWrongDefault(store, name) ==
  IF name \in DOMAIN store THEN store[name] ELSE <<nil, nil>>

\* Map.get(name) || null
storeGet(store, name) == IF name \in DOMAIN store THEN store[name] ELSE nil

\* A set that drops the bindings of the other names.
storeSetAlone(store, name, val) == [n \in {name} |-> val]

\* Map.set(name, val)
storeSet(store, name, val) ==
  [n \in DOMAIN store \cup {name} |-> IF n = name THEN val ELSE store[n]]

Literal(t) == [type |-> "literal", tree |-> t]

\* Index of the first argument that is not a literal, 0 when all are.
firstNonLiteral(args) ==
  IF \A i \in 1..Len(args) : args[i] # Null /\ args[i].type = "literal" THEN 0
  ELSE CHOOSE i \in 1..Len(args) :
         /\ args[i] = Null \/ args[i].type # "literal"
         /\ \A j \in 1..(i - 1) : args[j] # Null /\ args[j].type = "literal"

\* _evalExpr._replaceArgWithLiteral applied to the stack; the outcome is
\* "thrown" when the scan reads the type of a null argument.
_replaceArgWithLiteral(exprStack, val) ==
  LET par == exprStack[Len(exprStack)]
      i == firstNonLiteral(par.args)
  IN IF i = 0 THEN [thrown |-> FALSE, stack |-> exprStack]
     ELSE IF par.args[i] = Null THEN [thrown |-> TRUE, stack |-> exprStack]
     ELSE [thrown |-> FALSE,
           stack |-> [exprStack EXCEPT ![Len(exprStack)] =
                        [par EXCEPT !.args = [par.args EXCEPT ![i] = Literal(val)]]]]

\* The value computed when hd and tl take each other's side of the tree.
applyOpSwapped(op, args) ==
  IF op = "cons" THEN <<args[1].tree, args[2].tree>>
  ELSE IF args[1].tree = nil THEN nil
  ELSE IF op = "hd" THEN args[1].tree[2]
  ELSE args[1].tree[1]

\* The value an operation computes from its evaluated arguments.
applyOp(op, args) ==
  IF op = "cons" THEN <<args[1].tree, args[2].tree>>
  ELSE IF args[1].tree = nil THEN nil
  ELSE IF op = "hd" THEN args[1].tree[1]
  ELSE args[1].tree[2]

RECURSIVE evalLoop(_, _)
\* _evalExpr, the loop over the expression stack (the last element is the top).
evalLoop(exprStack, store) ==
  IF Len(exprStack) <= 1
  THEN [thrown |-> FALSE, tree |-> exprStack[1].args[1].tree]
  ELSE LET curr == exprStack[Len(exprStack)]
           rest == SubSeq(exprStack, 1, Len(exprStack) - 1)
       IN IF curr = Null THEN [thrown |-> TRUE, tree |-> nil]
          ELSE IF curr.type = "operation"
          THEN LET i == firstNonLiteral(curr.args)
               IN IF i # 0
                  THEN IF curr.args[i] = Null THEN [thrown |-> TRUE, tree |-> nil]
                       ELSE evalLoop(rest \o <<curr, curr.args[i]>>, store)
                  ELSE IF curr.op.value \notin {"cons", "hd", "tl"}
                  THEN [thrown |-> TRUE, tree |-> nil]
                  ELSE LET r == _replaceArgWithLiteral(rest, applyOp(curr.op.value, curr.args))
                       IN IF r.thrown THEN [thrown |-> TRUE, tree |-> nil]
                          ELSE evalLoop(r.stack, store)
          ELSE IF curr.type = "identifier"
          THEN LET r == _replaceArgWithLiteral(rest,
                          IF curr.value = "nil" THEN nil ELSE storeGet(store, curr.value))
               IN IF r.thrown THEN [thrown |-> TRUE, tree |-> nil]
                  ELSE evalLoop(r.stack, store)
          ELSE [thrown |-> TRUE, tree |-> nil]

_evalExpr(expr, store) ==
  evalLoop(<<[type |-> "root", args |-> <<expr>>], expr>>, store)

\* ------------------------------------------------------------------------
\* Inputs
\* ------------------------------------------------------------------------
GoodIntro == <<"p", "read", "X", "{">>
GoodOutro == <<"}", "write", "Y">>

\* Openings and endings of a program text, well-formed and degraded.
Intros ==
  {GoodIntro, <<"hd", "read", "X", "{">>, <<"p", "read", "hd", "{">>,
   <<"read", "X", "{">>, <<"p", "X", "{">>, <<"p", "{">>, <<"{">>,
   <<"p", "read", "{">>, <<"p", "read">>, <<"p">>, <<>>}
Outros ==
  {GoodOutro, <<"}", "Y">>, <<"}", "write">>, <<"}", "write", "hd">>,
   <<"}", "write", "Y", "Y">>, <<"}">>, <<>>, <<"}", "write", "X">>,
   <<"}", "write", "nil">>}

\* Fragments of a program body: whole statements, broken statements,
\* separators and braces.
Chunks ==
  {<<"Y", ":=", "X">>, <<"Y", ":=", "cons", "nil", "Y">>, <<"X", ":=", "tl", "X">>,
   <<"Y", ":=">>, <<"Y", "X", "X">>, <<"Y", ":=", "(", "X">>, <<"Y", ":=", "1">>,
   <<"Z", ":=", "Y">>,
   <<";">>, <<"}">>, <<"{">>, <<")">>,
   <<";", "Z", ":=", "hd", "X">>, <<";", "Y", ":=">>,
   <<"while", "X", "{", "X", ":=", "tl", "X", "}">>, <<"while", "X", "{">>,
   <<"while", "hd", ")", "{", "}">>,
   <<"if", "X", "{", "Y", ":=", "X", "}">>, <<"else", "{", "}">>,
   <<"switch", "X", "{">>, <<"case", "1", ":", "Y", ":=", "X">>,
   <<"default", ":", "Y", ":=", "nil">>,
   <<"switch", "X", "{", "default", ":", "Y", ":=", "nil">>,
   <<"nil", ":=", "X">>}

RECURSIVE Bodies(_)
\* The bodies made of at most n fragments.
Bodies(n) ==
  IF n = 0 THEN {<<>>}
  ELSE LET shorter == Bodies(n - 1)
       IN shorter \cup {b \o c : b \in shorter, c \in Chunks}

\* Every lexeme of the two dialects.
Vocabulary ==
  {"X", "Y", "nil", "hd", "tl", "cons", "1", ":=", ";", "{", "}", "(", ")",
   "if", "else", "while", "read", "write", "switch", "case", "default", ":"}

RECURSIVE FreeLists(_)
\* The lexeme lists of length at most n, in any order.
FreeLists(n) ==
  IF n = 0 THEN {<<>>}
  ELSE LET shorter == FreeLists(n - 1)
       IN shorter \cup {Append(l, v) : l \in shorter, v \in Vocabulary}

Sources ==
  {GoodIntro \o b \o GoodOutro : b \in Bodies(MaxChunks) \cup FreeLists(MaxFree)}
  \cup {i \o b \o o : i \in Intros,
                        b \in {<<>>, <<"Y", ":=", "X">>, <<"nil", ":=", "X">>},
                        o \in Outros}
  \cup FreeLists(MaxFree)

Trees == {nil, <<nil, nil>>, <<<<nil, nil>>, nil>>}

\* ------------------------------------------------------------------------
\* State
\* ------------------------------------------------------------------------
VARIABLES
  tokens,        \* the caller's token list object
  pureOnly,      \* the caller's ParserOpts.pureOnly
  calls,         \* the parser() calls made so far: their argument and outcome
  program,       \* Interpreter._program, Null before construction
  input,         \* Interpreter._input
  store,         \* Interpreter._store
  commandStack,  \* run(): the command stack (the last element is the top)
  pc,            \* run(): "idle", "running", "returned" or "thrown"
  steps,         \* run(): loop iterations made by the current call
  runs,          \* the run() calls started so far
  outputs,       \* the trees returned by the run() calls so far
  stmt,          \* the outcome of a _readStmt call made on `tokens`, Null before it
  value,         \* the outcome of an _evalExpr call, Null before it
  pad,           \* a PAD value: given, or returned by to_pad; Null before it
  decoded,       \* the program from_pad returned for `pad`, Null before it
  reencoded,     \* the PAD value to_pad returned for `decoded`, Null before it
  state,         \* a StateManager driven by its caller, Null before construction
  outcome,       \* the last operation made on `state` and what it returned
  heap           \* run(): the arrays of the AST and of the frames, by address

vars == <<tokens, pureOnly, calls, program, input, store, commandStack, pc,
          steps, runs, outputs, stmt, value, pad, decoded, reencoded,
          state, outcome, heap>>

parserVars == <<tokens, pureOnly, calls>>
interpreterVars == <<program, input, store, commandStack, pc, steps, runs, outputs>>
padVars == <<pad, decoded, reencoded>>
cursorVars == <<state, outcome>>
unitVars == <<stmt, value, padVars, cursorVars, heap>>

EmptyStore == [n \in {} |-> nil]

Init ==
  /\ tokens \in {Lex(s, 0) : s \in Sources}
  /\ pureOnly \in BOOLEAN
  /\ calls = <<>>
  /\ program = Null
  /\ input = nil
  /\ store = EmptyStore
  /\ commandStack = <<>>
  /\ pc = "idle"
  /\ steps = 0
  /\ runs = 0
  /\ outputs = <<>>
  /\ stmt = Null
  /\ value = Null
  /\ pad = Null
  /\ decoded = Null
  /\ reencoded = Null
  /\ state = Null
  /\ outcome = Null
  /\ heap = Null

\* ------------------------------------------------------------------------
\* Operations
\* ------------------------------------------------------------------------
\* The caller invokes parser(tokens, {pureOnly}) on its token list.
Parse ==
  /\ program = Null
  /\ Len(calls) < MaxCalls
  /\ \E r \in {parser(tokens, [pureOnly |-> pureOnly])} :
       /\ calls' = Append(calls, [given |-> tokens, ast |-> r.ast,
                                  errors |-> r.errors, raised |-> r.raised,
                                  loops |-> r.loops])
       /\ tokens' = r.tokens
  /\ UNCHANGED <<pureOnly, interpreterVars, unitVars>>

LastCall == calls[Len(calls)]

\* A constructor that leaves the input variable out of the store.
NewInterpreterUnbound(ast, tree) ==
  /\ program = Null
  /\ program' = ast
  /\ input' = tree
  /\ store' = EmptyStore
  /\ UNCHANGED <<parserVars, commandStack, pc, steps, runs, outputs, unitVars>>

\* new Interpreter(ast, input) on a program the parser returned as AST_PROG.
NewInterpreter(ast, tree) ==
  /\ program = Null
  /\ program' = ast
  /\ input' = tree
  /\ store' = storeSet(EmptyStore, ast.input.value, tree)
  /\ UNCHANGED <<parserVars, commandStack, pc, steps, runs, outputs, unitVars>>

\* The caller builds an Interpreter on the last program parsed, with an
\* input tree taken from `trees`.
ConstructOn(trees) ==
  /\ calls # <<>>
  /\ ~LastCall.raised
  /\ LastCall.ast.complete
  /\ \E tree \in trees : NewInterpreter(LastCall.ast, tree)

Construct == ConstructOn(Trees)

\* A block frame holding the commands in the reverse of their textual order.
BlockReversed(body) ==
  [type |-> "block", body |-> [i \in 1..Len(body) |-> body[Len(body) + 1 - i]]]

Block(body) == [type |-> "block", body |-> body]

\* run(), up to the first test of the loop.
RunStart ==
  /\ program # Null
  /\ pc \in {"idle", "returned", "thrown"}
  /\ runs < MaxRuns
  /\ commandStack' = <<Block(program.body)>>
  /\ pc' = "running"
  /\ steps' = 0
  /\ runs' = runs + 1
  /\ UNCHANGED <<parserVars, program, input, store, outputs, unitVars>>

\* run()'s iteration when a loop whose condition holds is not put back on
\* the stack before its body: the body runs once.
executeLoopOnce(op, stack, st) ==
  IF op = Null THEN [thrown |-> TRUE, stack |-> stack, store |-> st]
  ELSE IF op.type = "assign"
  THEN LET v == _evalExpr(op.arg, st)
       IN IF v.thrown THEN [thrown |-> TRUE, stack |-> stack, store |-> st]
          ELSE [thrown |-> FALSE, stack |-> stack,
                store |-> storeSet(st, op.ident.value, v.tree)]
  ELSE IF op.type = "cond"
  THEN LET v == _evalExpr(op.condition, st)
       IN IF v.thrown THEN [thrown |-> TRUE, stack |-> stack, store |-> st]
          ELSE IF v.tree # nil
          THEN [thrown |-> FALSE, stack |-> Append(stack, Block(op.if)), store |-> st]
          ELSE [thrown |-> FALSE, stack |-> Append(stack, Block(op.else)), store |-> st]
  ELSE IF op.type = "loop"
  THEN LET v == _evalExpr(op.condition, st)
       IN IF v.thrown THEN [thrown |-> TRUE, stack |-> stack, store |-> st]
          ELSE IF v.tree # nil
          THEN [thrown |-> FALSE, stack |-> Append(stack, Block(op.body)), store |-> st]
          ELSE [thrown |-> FALSE, stack |-> stack, store |-> st]
  ELSE IF op.type = "block"
  THEN LET body == IF op.body = <<>> THEN <<>> ELSE Tail(op.body)
           s1 == IF Len(body) > 0 THEN Append(stack, Block(body)) ELSE stack
       IN [thrown |-> FALSE,
           stack |-> IF op.body # <<>> THEN Append(s1, Head(op.body)) ELSE s1,
           store |-> st]
  ELSE [thrown |-> TRUE, stack |-> stack, store |-> st]

\* run(), one iteration of the loop on the frame `op` popped from the stack:
\* the new stack and store, or thrown.
execute(op, stack, st) ==
  IF op = Null THEN [thrown |-> TRUE, stack |-> stack, store |-> st]
  ELSE IF op.type = "assign"
  THEN LET v == _evalExpr(op.arg, st)
       IN IF v.thrown THEN [thrown |-> TRUE, stack |-> stack, store |-> st]
          ELSE [thrown |-> FALSE, stack |-> stack,
                store |-> storeSet(st, op.ident.value, v.tree)]
  ELSE IF op.type = "cond"
  THEN LET v == _evalExpr(op.condition, st)
       IN IF v.thrown THEN [thrown |-> TRUE, stack |-> stack, store |-> st]
          ELSE IF v.tree # nil
          THEN [thrown |-> FALSE, stack |-> Append(stack, Block(op.if)), store |-> st]
          ELSE [thrown |-> FALSE, stack |-> Append(stack, Block(op.else)), store |-> st]
  ELSE IF op.type = "loop"
  THEN LET v == _evalExpr(op.condition, st)
       IN IF v.thrown THEN [thrown |-> TRUE, stack |-> stack, store |-> st]
          ELSE IF v.tree # nil
          THEN [thrown |-> FALSE, stack |-> stack \o <<op, Block(op.body)>>, store |-> st]
          ELSE [thrown |-> FALSE, stack |-> stack, store |-> st]
  ELSE IF op.type = "block"
  THEN LET body == IF op.body = <<>> THEN <<>> ELSE Tail(op.body)
           s1 == IF Len(body) > 0 THEN Append(stack, Block(body)) ELSE stack
       IN [thrown |-> FALSE,
           stack |-> IF op.body # <<>> THEN Append(s1, Head(op.body)) ELSE s1,
           store |-> st]
  ELSE [thrown |-> TRUE, stack |-> stack, store |-> st]

\* run(), one iteration of the loop.
RunStep ==
  /\ pc = "running"
  /\ commandStack # <<>>
  /\ LET r == execute(commandStack[Len(commandStack)],
                      SubSeq(commandStack, 1, Len(commandStack) - 1), store)
     IN /\ commandStack' = r.stack
        /\ store' = r.store
        /\ pc' = IF r.thrown THEN "thrown" ELSE "running"
  /\ steps' = steps + 1
  /\ UNCHANGED <<parserVars, program, input, runs, outputs, unitVars>>

\* One iteration of run()'s loop, for as long as the model follows the call.
Step == steps < MaxSteps /\ RunStep

\* run(), the loop's exit and the return statement.
RunReturn ==
  /\ pc = "running"
  /\ commandStack = <<>>
  /\ outputs' = Append(outputs, storeGet(store, program.output.value))
  /\ pc' = "returned"
  /\ UNCHANGED <<parserVars, program, input, store, commandStack, steps, runs, unitVars>>

Next == Parse \/ Construct \/ RunStart \/ Step \/ RunReturn

Spec == Init /\ [][Next]_vars

\* ------------------------------------------------------------------------
\* run() on a heap: the arrays of the AST and of the frames are held by
\* address, so that a write through one reference is seen through every
\* other reference to the same array
\* ------------------------------------------------------------------------
\* An address is a sequence of integers. An array of the AST has the path to
\* it as its address: <<1>> is the program body; the command k of the list
\* at p is at p \o <<k>>, and its fields are at <<.., 1>> (if, body),
\* <<.., 2>> (else) and <<.., 3>> (condition, arg); the argument i of the
\* operation at q is at q \o <<i>>, and q is the address of its `args`.
\* An array created during a run has the address <<0, n>>.

RECURSIVE RefExpr(_, _)
\* The expression `e` at path `q`, its argument list replaced by its address.
RefExpr(e, q) ==
  IF e = Null THEN Null
  ELSE IF e.type = "operation" THEN [e EXCEPT !.args = q]
  ELSE e

RECURSIVE ExprArrays(_, _)
\* The argument lists of the expression `e` at path `q`, as <<address, array>>.
ExprArrays(e, q) ==
  IF e = Null THEN {}
  ELSE IF e.type # "operation" THEN {}
  ELSE {<<q, [i \in 1..Len(e.args) |-> RefExpr(e.args[i], q \o <<i>>)]>>}
       \cup UNION {ExprArrays(e.args[i], q \o <<i>>) : i \in 1..Len(e.args)}

\* The command `c` at path `p`, its lists replaced by their addresses.
RefCmd(c, p) ==
  IF c = Null THEN Null
  ELSE IF c.type = "assign" THEN [c EXCEPT !.arg = RefExpr(c.arg, p \o <<3>>)]
  ELSE IF c.type = "cond"
  THEN [c EXCEPT !.condition = RefExpr(c.condition, p \o <<3>>),
                 !.if = p \o <<1>>, !.else = p \o <<2>>]
  ELSE IF c.type = "loop"
  THEN [c EXCEPT !.condition = RefExpr(c.condition, p \o <<3>>), !.body = p \o <<1>>]
  ELSE c

RECURSIVE ListArrays(_, _)
\* The command list at path `p` and every array below it, as <<address, array>>.
ListArrays(list, p) ==
  {<<p, [k \in 1..Len(list) |-> RefCmd(list[k], p \o <<k>>)]>>}
  \cup UNION {IF list[k] = Null THEN {}
              ELSE IF list[k].type = "assign"
              THEN ExprArrays(list[k].arg, p \o <<k, 3>>)
              ELSE IF list[k].type = "cond"
              THEN ExprArrays(list[k].condition, p \o <<k, 3>>)
                   \cup ListArrays(list[k].if, p \o <<k, 1>>)
                   \cup ListArrays(list[k].else, p \o <<k, 2>>)
              ELSE IF list[k].type = "loop"
              THEN ExprArrays(list[k].condition, p \o <<k, 3>>)
                   \cup ListArrays(list[k].body, p \o <<k, 1>>)
              ELSE {} : k \in 1..Len(list)}

\* The heap holding the arrays of the AST `ast` as the parser returned it.
Arrays(ast) ==
  [a \in {x[1] : x \in ListArrays(ast.body, <<1>>)} |->
     (CHOOSE x \in ListArrays(ast.body, <<1>>) : x[1] = a)[2]]

\* The address of a new array on the heap `h`.
NewAddress(h) ==
  <<0, CHOOSE n \in 1..(Cardinality(DOMAIN h) + 1) :
         /\ <<0, n>> \notin DOMAIN h
         /\ \A m \in 1..(n - 1) : <<0, m>> \in DOMAIN h>>

\* [...array]: a new array with the elements of the array at `a`.
Spread(h, a) == h @@ (NewAddress(h) :> h[a])

\* The heap once the arrays no longer referenced are dropped: the AST's
\* arrays and those of the block frames on `stack` remain.
Reachable(h, ast, stack) ==
  [a \in DOMAIN Arrays(ast)
         \cup {stack[k].body : k \in {j \in 1..Len(stack) :
                                        stack[j] # Null /\ stack[j].type = "block"}}
     |-> h[a]]

\* _evalExpr._copyExpr when the copy keeps the argument list of the original.
copyExprSharing(h, expr) == [expr |-> expr, heap |-> h]

\* _evalExpr._copyExpr: a copy of the object; the argument list of a root or
\* an operation is recreated.
_copyExpr(h, expr) ==
  IF expr.type = "root" \/ expr.type = "operation"
  THEN [expr |-> [expr EXCEPT !.args = NewAddress(h)], heap |-> Spread(h, expr.args)]
  ELSE [expr |-> expr, heap |-> h]

\* _evalExpr._replaceArgWithLiteral: the write goes to the array the parent
\* on top of the stack refers to.
replaceArgInPlace(exprStack, val, h) ==
  LET par == exprStack[Len(exprStack)]
      i == firstNonLiteral(h[par.args])
  IN IF i = 0 THEN [thrown |-> FALSE, heap |-> h]
     ELSE IF h[par.args][i] = Null THEN [thrown |-> TRUE, heap |-> h]
     ELSE [thrown |-> FALSE,
           heap |-> [h EXCEPT ![par.args] = [@ EXCEPT ![i] = Literal(val)]]]

RECURSIVE evalLoopOnHeap(_, _, _)
\* _evalExpr, the loop over the expression stack, on the heap `h`.
evalLoopOnHeap(exprStack, st, h) ==
  IF Len(exprStack) <= 1
  THEN [thrown |-> FALSE, tree |-> h[exprStack[1].args][1].tree, heap |-> h]
  ELSE LET curr == exprStack[Len(exprStack)]
           rest == SubSeq(exprStack, 1, Len(exprStack) - 1)
       IN IF curr = Null THEN [thrown |-> TRUE, tree |-> nil, heap |-> h]
          ELSE IF curr.type = "operation"
          THEN LET i == firstNonLiteral(h[curr.args])
               IN IF i # 0
                  THEN IF h[curr.args][i] = Null
                       THEN [thrown |-> TRUE, tree |-> nil, heap |-> h]
                       ELSE LET c == _copyExpr(h, h[curr.args][i])
                            IN evalLoopOnHeap(rest \o <<curr, c.expr>>, st, c.heap)
                  ELSE IF curr.op.value \notin {"cons", "hd", "tl"}
                  THEN [thrown |-> TRUE, tree |-> nil, heap |-> h]
                  ELSE LET r == replaceArgInPlace(rest, applyOp(curr.op.value, h[curr.args]), h)
                       IN IF r.thrown THEN [thrown |-> TRUE, tree |-> nil, heap |-> r.heap]
                          ELSE evalLoopOnHeap(rest, st, r.heap)
          ELSE IF curr.type = "identifier"
          THEN LET r == replaceArgInPlace(rest,
                          IF curr.value = "nil" THEN nil ELSE storeGet(st, curr.value), h)
               IN IF r.thrown THEN [thrown |-> TRUE, tree |-> nil, heap |-> r.heap]
                  ELSE evalLoopOnHeap(rest, st, r.heap)
          ELSE [thrown |-> TRUE, tree |-> nil, heap |-> h]

\* _evalExpr on the heap `h`: the value, and the heap as the call leaves it
\* for its caller (the arrays the call created are no longer referenced).
evalExprOnHeap(expr, st, h) ==
  IF expr = Null THEN [thrown |-> TRUE, tree |-> nil, heap |-> h]
  ELSE LET root == [type |-> "root", args |-> NewAddress(h)]
           c == _copyExpr(h @@ (root.args :> <<expr>>), expr)
           r == evalLoopOnHeap(<<root, c.expr>>, st, c.heap)
       IN [thrown |-> r.thrown, tree |-> r.tree,
           heap |-> [a \in DOMAIN h |-> r.heap[a]]]

\* run(), one iteration of the loop on the frame `op` popped from the stack,
\* on the heap `h`.
executeOnHeap(op, stack, st, h) ==
  IF op = Null THEN [thrown |-> TRUE, stack |-> stack, store |-> st, heap |-> h]
  ELSE IF op.type = "assign"
  THEN LET v == evalExprOnHeap(op.arg, st, h)
       IN IF v.thrown THEN [thrown |-> TRUE, stack |-> stack, store |-> st, heap |-> v.heap]
          ELSE [thrown |-> FALSE, stack |-> stack,
                store |-> storeSet(st, op.ident.value, v.tree), heap |-> v.heap]
  ELSE IF op.type = "cond"
  THEN LET v == evalExprOnHeap(op.condition, st, h)
       IN IF v.thrown THEN [thrown |-> TRUE, stack |-> stack, store |-> st, heap |-> v.heap]
          ELSE IF v.tree # nil
          THEN [thrown |-> FALSE, stack |-> Append(stack, Block(NewAddress(v.heap))),
                store |-> st, heap |-> Spread(v.heap, op.if)]
          ELSE [thrown |-> FALSE, stack |-> Append(stack, Block(NewAddress(v.heap))),
                store |-> st, heap |-> Spread(v.heap, op.else)]
  ELSE IF op.type = "loop"
  THEN LET v == evalExprOnHeap(op.condition, st, h)
       IN IF v.thrown THEN [thrown |-> TRUE, stack |-> stack, store |-> st, heap |-> v.heap]
          ELSE IF v.tree # nil
          THEN [thrown |-> FALSE, stack |-> stack \o <<op, Block(NewAddress(v.heap))>>,
                store |-> st, heap |-> Spread(v.heap, op.body)]
          ELSE [thrown |-> FALSE, stack |-> stack, store |-> st, heap |-> v.heap]
  ELSE IF op.type = "block"
  THEN LET body == IF h[op.body] = <<>> THEN <<>> ELSE Tail(h[op.body])
           s1 == IF Len(body) > 0 THEN Append(stack, op) ELSE stack
       IN [thrown |-> FALSE,
           stack |-> IF h[op.body] # <<>> THEN Append(s1, Head(h[op.body])) ELSE s1,
           store |-> st,
           heap |-> [h EXCEPT ![op.body] = body]]
  ELSE [thrown |-> TRUE, stack |-> stack, store |-> st, heap |-> h]

\* The arrays of the AST as the run finds them: those the parser built, or
\* what earlier runs left of them.
ProgramArrays ==
  IF heap = Null THEN Arrays(program)
  ELSE [a \in DOMAIN Arrays(program) |-> heap[a]]

\* run(), up to the first test of the loop.
RunStartOnHeap ==
  /\ program # Null
  /\ pc \in {"idle", "returned", "thrown"}
  /\ runs < MaxRuns
  /\ commandStack' = <<Block(NewAddress(ProgramArrays))>>
  /\ heap' = Spread(ProgramArrays, <<1>>)
  /\ pc' = "running"
  /\ steps' = 0
  /\ runs' = runs + 1
  /\ UNCHANGED <<parserVars, program, input, store, outputs, stmt, value, padVars,
                 cursorVars>>

\* run(), one iteration of the loop.
RunStepOnHeap ==
  /\ pc = "running"
  /\ commandStack # <<>>
  /\ \E r \in {executeOnHeap(commandStack[Len(commandStack)],
                             SubSeq(commandStack, 1, Len(commandStack) - 1),
                             store, heap)} :
       /\ commandStack' = r.stack
       /\ store' = r.store
       /\ heap' = Reachable(r.heap, program, r.stack)
       /\ pc' = IF r.thrown THEN "thrown" ELSE "running"
  /\ steps' = steps + 1
  /\ UNCHANGED <<parserVars, program, input, runs, outputs, stmt, value, padVars,
                 cursorVars>>

\* One iteration of run()'s loop, for as long as the model follows the call.
StepOnHeap == steps < MaxSteps /\ RunStepOnHeap

\* Input trees of the runs followed on the heap: those of Trees, and one on
\* which `while X { X := tl X }` makes two iterations.
RunTrees == Trees \cup {<<nil, <<nil, nil>>>>}

ConstructRun == ConstructOn(RunTrees)

NextRun == Parse \/ ConstructRun \/ RunStartOnHeap \/ StepOnHeap \/ RunReturn

SpecRun == Init /\ [][NextRun]_vars

\* ------------------------------------------------------------------------
\* One statement: _readStmt on a statement's tokens, then _evalExpr on the
\* expression the interpreter evaluates first when it executes the statement
\* ------------------------------------------------------------------------
\* Nesting depth of hd / tl around the generated expressions.
MaxWrap == 1

ExprAtoms == {<<"X">>, <<"Y">>, <<"nil">>, <<"1">>}

ExprBase == ExprAtoms \cup {<<"cons">> \o a \o b : a \in ExprAtoms, b \in ExprAtoms}

RECURSIVE Wrapped(_)
\* The expressions with at most n hd / tl around an atom or a cons of atoms.
Wrapped(n) ==
  IF n = 0 THEN ExprBase
  ELSE LET w == Wrapped(n - 1)
       IN w \cup {<<op>> \o e : op \in {"hd", "tl"}, e \in w}

\* Expression texts: well-formed ones, and ones that miss a part.
ExprSources ==
  Wrapped(MaxWrap)
  \cup {<<"0">>, <<"2">>, <<"cons", "2", "0">>, <<"(", "hd", "X", ")">>}
  \cup {<<>>, <<"hd">>, <<"cons", "X">>, <<"(", "X">>, <<"hd", ")">>}

Conditions == {<<"X">>, <<"hd", "X">>, <<"1">>, <<"hd", ")">>, <<"cons", "X">>, <<>>}

Blocks ==
  {<<"{", "}">>, <<"{", "Y", ":=", "X", "}">>,
   <<"{", "Y", ":=", "X", ";", "X", ":=", "tl", "X", "}">>,
   <<"{", "Y", ":=", "X">>, <<"{", "Y", ":=", "}">>, <<>>}

Elses == {<<>>, <<"else", "{", "}">>, <<"else", "{", "Y", ":=", "nil", "}">>}

Switches ==
  {<<"switch">>, <<"switch", "X">>, <<"switch", "X", "{">>,
   <<"switch", "X", "{", "}">>,
   <<"switch", "X", "{", "case", "1", ":", "Y", ":=", "X", "}">>,
   <<"switch", "X", "{", "default", ":", "Y", ":=", "nil", "}">>,
   <<"switch", "hd", ")", "{", "case", "0", ":", "Y", ":=", "X",
     "default", ":", "Y", ":=", "nil", "}">>,
   <<"switch", "hd", ")", "{", "}">>,
   <<"switch", "X", "{", "case", "hd", ")", ":", "Y", ":=", "X", "}">>,
   <<"switch", "X", "{", "default", ":", "Y", ":=", "nil",
     "case", "1", ":", "Y", ":=", "X", "}">>}

\* What may come after a statement in a program text.
Follows == {<<>>, <<";">>, <<"}">>, <<";", "Z", ":=", "X">>}

Statements ==
  {<<"Y", ":=">> \o e : e \in ExprSources}
  \cup {<<"if">> \o c \o b \o e : c \in Conditions, b \in Blocks, e \in Elses}
  \cup {<<"while">> \o c \o b : c \in Conditions, b \in Blocks}
  \cup Switches
  \cup {<<"1">>, <<":=", "X">>}

StmtSources == {s \o f : s \in Statements, f \in Follows}

\* The stores binding some of X and Y.
Stores == UNION {[S -> Trees] : S \in SUBSET {"X", "Y"}}

InitStmt ==
  /\ tokens \in {Lex(s, 0) : s \in StmtSources}
  /\ pureOnly \in BOOLEAN
  /\ calls = <<>>
  /\ program = Null
  /\ input = nil
  /\ store = EmptyStore
  /\ commandStack = <<>>
  /\ pc = "idle"
  /\ steps = 0
  /\ runs = 0
  /\ outputs = <<>>
  /\ stmt = Null
  /\ value = Null
  /\ pad = Null
  /\ decoded = Null
  /\ reencoded = Null
  /\ state = Null
  /\ outcome = Null
  /\ heap = Null

\* _readStatementList calls _readStmt(state, opts) on the tokens at hand.
ReadStmt ==
  /\ stmt = Null
  /\ stmt' = _readStmt(NewStateManager(tokens), [pureOnly |-> pureOnly])
  /\ UNCHANGED <<parserVars, interpreterVars, value, padVars, cursorVars, heap>>

\* The expression run() hands to _evalExpr when it pops the command.
Evaluated(op) ==
  IF op.type = "assign" THEN {op.arg}
  ELSE IF op.type \in {"cond", "loop"} THEN {op.condition}
  ELSE {}

\* run() pops a command the parser returned as complete and evaluates its
\* expression in the store of the moment.
Evaluate ==
  /\ stmt # Null
  /\ value = Null
  /\ stmt.node # Null
  /\ stmt.node.complete
  /\ \E s \in Stores, e \in Evaluated(stmt.node) :
       /\ store' = s
       /\ \E r \in {_evalExpr(e, s)} :
            value' = [expr |-> e, thrown |-> r.thrown, tree |-> r.tree]
  /\ UNCHANGED <<parserVars, program, input, commandStack, pc, steps, runs,
                 outputs, stmt, padVars, cursorVars, heap>>

NextStmt == ReadStmt \/ Evaluate

SpecStmt == InitStmt /\ [][NextStmt]_vars

\* ------------------------------------------------------------------------
\* The `add` program, parsed and run on pairs of encoded naturals
\* ------------------------------------------------------------------------
\* Largest natural encoded in an input of the add program.
MaxNat == 3

AddProgram ==
  <<"add", "read", "XY", "{",
    "X", ":=", "hd", "XY", ";", "Y", ":=", "tl", "XY", ";",
    "while", "X", "{", "Y", ":=", "cons", "nil", "Y", ";", "X", ":=", "tl", "X", "}",
    "}", "write", "Y">>

AddInputs == {<<_numToTree(m), _numToTree(n)>> : m \in 0..MaxNat, n \in 0..MaxNat}

InitAdd ==
  /\ tokens = Lex(AddProgram, 0)
  /\ pureOnly \in BOOLEAN
  /\ calls = <<>>
  /\ program = Null
  /\ input = nil
  /\ store = EmptyStore
  /\ commandStack = <<>>
  /\ pc = "idle"
  /\ steps = 0
  /\ runs = 0
  /\ outputs = <<>>
  /\ stmt = Null
  /\ value = Null
  /\ pad = Null
  /\ decoded = Null
  /\ reencoded = Null
  /\ state = Null
  /\ outcome = Null
  /\ heap = Null

ConstructAdd == ConstructOn(AddInputs)

NextAdd == Parse \/ ConstructAdd \/ RunStart \/ RunStep \/ RunReturn

SpecAdd == InitAdd /\ [][NextAdd]_vars

\* ------------------------------------------------------------------------
\* PAD codec: to_pad and from_pad
\*
\* A PAD list is written as a record: the program [input, body, output];
\* the commands [':=', idx, expr], ['if', cond, then, else] and
\* ['while', cond, body]; the expressions ['var', idx], ['quote', 'nil'],
\* ['hd', e], ['tl', e] and ['cons', l, r], each with its keyword as `tag`.
\* ------------------------------------------------------------------------
PVar(i) == [tag |-> "var", idx |-> i]
PNil == [tag |-> "quote", val |-> "nil"]
PHd(e) == [tag |-> "hd", arg |-> e]
PTl(e) == [tag |-> "tl", arg |-> e]
PCons(l, r) == [tag |-> "cons", left |-> l, right |-> r]
PAssign(i, e) == [tag |-> ":=", idx |-> i, expr |-> e]
PIf(c, t, e) == [tag |-> "if", cond |-> c, then |-> t, else |-> e]
PWhile(c, b) == [tag |-> "while", cond |-> c, body |-> b]
PProgram(i, b, o) == [input |-> i, body |-> b, output |-> o]

RECURSIVE exprVars(_)
\* The variables of an expression, in textual order.
exprVars(e) ==
  IF e.type = "identifier" THEN (IF e.value = "nil" THEN <<>> ELSE <<e.value>>)
  ELSE IF e.type = "operation"
  THEN (IF Len(e.args) = 1 THEN exprVars(e.args[1])
        ELSE exprVars(e.args[1]) \o exprVars(e.args[2]))
  ELSE <<>>

RECURSIVE listVars(_)
\* The variables of a statement list, in textual order.
listVars(list) ==
  IF list = <<>> THEN <<>>
  ELSE (IF Head(list).type = "assign"
        THEN <<Head(list).ident.value>> \o exprVars(Head(list).arg)
        ELSE IF Head(list).type = "cond"
        THEN exprVars(Head(list).condition) \o listVars(Head(list).if)
             \o listVars(Head(list).else)
        ELSE exprVars(Head(list).condition) \o listVars(Head(list).body))
       \o listVars(Tail(list))

RECURSIVE firstOccurrences(_, _)
\* The names of `names` that `seen` does not hold, appended to `seen` in
\* order of first occurrence.
firstOccurrences(seen, names) ==
  IF names = <<>> THEN seen
  ELSE IF InSeq(Head(names), seen) THEN firstOccurrences(seen, Tail(names))
  ELSE firstOccurrences(Append(seen, Head(names)), Tail(names))

\* The table that reads the output variable before the body.
varTableOutputFirst(ast) ==
  firstOccurrences(<<ast.input.value>>,
                   <<ast.output.value>> \o listVars(ast.body))

\* to_pad, the variable table: the input variable, then every other
\* variable in order of first occurrence.
varTable(ast) ==
  firstOccurrences(<<ast.input.value>>,
                   listVars(ast.body) \o <<ast.output.value>>)

\* The index of a variable in the table.
varIndex(table, name) == (CHOOSE i \in 1..Len(table) : table[i] = name) - 1

RECURSIVE padOfTree(_)
\* to_pad, a numeric literal: nested conses with nil left children.
padOfTree(t) == IF t = nil THEN PNil ELSE PCons(PNil, padOfTree(t[2]))

RECURSIVE padOfExpr(_, _)
\* to_pad, an expression.
padOfExpr(e, table) ==
  IF e.type = "identifier"
  THEN (IF e.value = "nil" THEN PNil ELSE PVar(varIndex(table, e.value)))
  ELSE IF e.type = "tree" THEN padOfTree(e.tree)
  ELSE IF e.op.value = "hd" THEN PHd(padOfExpr(e.args[1], table))
  ELSE IF e.op.value = "tl" THEN PTl(padOfExpr(e.args[1], table))
  ELSE PCons(padOfExpr(e.args[1], table), padOfExpr(e.args[2], table))

RECURSIVE padOfList(_, _)
\* to_pad, a statement list.
padOfList(list, table) ==
  IF list = <<>> THEN <<>>
  ELSE <<IF Head(list).type = "assign"
         THEN PAssign(varIndex(table, Head(list).ident.value),
                      padOfExpr(Head(list).arg, table))
         ELSE IF Head(list).type = "cond"
         THEN PIf(padOfExpr(Head(list).condition, table),
                  padOfList(Head(list).if, table), padOfList(Head(list).else, table))
         ELSE PWhile(padOfExpr(Head(list).condition, table),
                     padOfList(Head(list).body, table))>>
       \o padOfList(Tail(list), table)

\* to_pad, the program encoded with the given table.
padWith(ast, table) ==
  PProgram(varIndex(table, ast.input.value), padOfList(ast.body, table),
           varIndex(table, ast.output.value))

toPad(ast) == padWith(ast, varTable(ast))

\* A naming that gives every index the same name.
varNameConstant(i) == <<"A", "A", "A", "A", "A", "A", "A", "A">>[i + 1]

\* from_pad, the name synthesized for an index.
varName(i) == <<"A", "B", "C", "D", "E", "F", "G", "H">>[i + 1]

\* from_pad, the tokens of the nodes it builds.
identToken(name) == [type |-> "identifier", value |-> name]
opToken(name) == [type |-> "operation", value |-> name]

RECURSIVE exprOfPad(_)
\* from_pad, an expression.
exprOfPad(e) ==
  IF e.tag = "var" THEN identToken(varName(e.idx))
  ELSE IF e.tag = "quote" THEN identToken("nil")
  ELSE IF e.tag = "cons"
  THEN opNode(TRUE, opToken("cons"), <<exprOfPad(e.left), exprOfPad(e.right)>>)
  ELSE opNode(TRUE, opToken(e.tag), <<exprOfPad(e.arg)>>)

RECURSIVE listOfPad(_)
\* from_pad, a command list.
listOfPad(list) ==
  IF list = <<>> THEN <<>>
  ELSE <<IF Head(list).tag = ":="
         THEN [type |-> "assign", complete |-> TRUE,
               ident |-> identToken(varName(Head(list).idx)),
               arg |-> exprOfPad(Head(list).expr)]
         ELSE IF Head(list).tag = "if"
         THEN [type |-> "cond", complete |-> TRUE,
               condition |-> exprOfPad(Head(list).cond),
               if |-> listOfPad(Head(list).then), else |-> listOfPad(Head(list).else)]
         ELSE [type |-> "loop", complete |-> TRUE,
               condition |-> exprOfPad(Head(list).cond),
               body |-> listOfPad(Head(list).body)]>>
       \o listOfPad(Tail(list))

fromPad(d) ==
  [type |-> "program", complete |-> TRUE, name |-> identToken("prog"),
   input |-> identToken(varName(d.input)), output |-> identToken(varName(d.output)),
   body |-> listOfPad(d.body)]

\* Number of statements in a generated program body, and of commands in a
\* generated PAD body.
MaxStmts == 2

PadStatements ==
  {<<"Y", ":=", "X">>, <<"Y", ":=", "nil">>, <<"Z", ":=", "cons", "hd", "X", "Y">>,
   <<"Y", ":=", "1">>,
   <<"if", "Z", "{", "Y", ":=", "X", "}">>,
   <<"if", "X", "{", "}", "else", "{", "Z", ":=", "tl", "Y", "}">>,
   <<"while", "X", "{", "Y", ":=", "cons", "nil", "Y", ";", "X", ":=", "tl", "X", "}">>,
   <<"while", "hd", "Z", "{", "}">>}

RECURSIVE StatementLists(_)
\* The `;`-separated lists of one to n statements.
StatementLists(n) ==
  IF n = 1 THEN PadStatements
  ELSE LET shorter == StatementLists(n - 1)
       IN shorter \cup {l \o <<";">> \o c : l \in shorter, c \in PadStatements}

PadPrograms ==
  {<<"p", "read", "X", "{">> \o b \o <<"}", "write", o>> :
     b \in {<<>>} \cup StatementLists(MaxStmts), o \in {"X", "Y", "Z"}}

PadIndices == 0..2
PadExprs ==
  {PNil} \cup {PVar(i) : i \in PadIndices} \cup {PHd(PVar(i)) : i \in PadIndices}
  \cup {PCons(PNil, PVar(i)) : i \in PadIndices}
PadCommands ==
  {PAssign(i, e) : i \in PadIndices, e \in PadExprs}
  \cup {PWhile(PVar(i), <<PAssign(j, PTl(PVar(i)))>>) : i \in PadIndices, j \in PadIndices}
  \cup {PIf(PVar(i), <<>>, <<PAssign(j, PNil)>>) : i \in PadIndices, j \in PadIndices}

RECURSIVE CommandLists(_)
\* The lists of at most n PAD commands.
CommandLists(n) ==
  IF n = 0 THEN {<<>>}
  ELSE LET shorter == CommandLists(n - 1)
       IN shorter \cup {Append(l, c) : l \in shorter, c \in PadCommands}

PadValues ==
  {PProgram(i, b, o) : i \in PadIndices, b \in CommandLists(MaxStmts - 1),
                       o \in PadIndices}

\* Either a program text to be parsed and encoded, or a PAD value to be
\* decoded.
InitPad ==
  /\ \/ tokens \in {Lex(s, 0) : s \in PadPrograms} /\ pad = Null
     \/ tokens = <<>> /\ pad \in PadValues
  /\ pureOnly \in BOOLEAN
  /\ calls = <<>>
  /\ program = Null
  /\ input = nil
  /\ store = EmptyStore
  /\ commandStack = <<>>
  /\ pc = "idle"
  /\ steps = 0
  /\ runs = 0
  /\ outputs = <<>>
  /\ stmt = Null
  /\ value = Null
  /\ decoded = Null
  /\ reencoded = Null
  /\ state = Null
  /\ outcome = Null
  /\ heap = Null

\* to_pad(ast) on the program the parser returned, complete and with no
\* switch statement.
ToPad ==
  /\ pad = Null
  /\ calls # <<>>
  /\ LastCall.ast.complete
  /\ LastCall.errors = <<>>
  /\ pad' = toPad(LastCall.ast)
  /\ UNCHANGED <<parserVars, interpreterVars, stmt, value, decoded, reencoded,
                 cursorVars, heap>>

\* from_pad(pad)
FromPad ==
  /\ pad # Null
  /\ decoded = Null
  /\ decoded' = fromPad(pad)
  /\ UNCHANGED <<parserVars, interpreterVars, stmt, value, pad, reencoded,
                 cursorVars, heap>>

\* to_pad(decoded)
ToPadAgain ==
  /\ decoded # Null
  /\ reencoded = Null
  /\ reencoded' = toPad(decoded)
  /\ UNCHANGED <<parserVars, interpreterVars, stmt, value, pad, decoded,
                 cursorVars, heap>>

NextPad == Parse \/ ToPad \/ FromPad \/ ToPadAgain

SpecPad == InitPad /\ [][NextPad]_vars

\* ------------------------------------------------------------------------
\* The token cursor on its own: a StateManager and the calls a parser
\* function makes on it
\* ------------------------------------------------------------------------
\* Length of the token lists handed to the cursor.
MaxQueue == 2
\* Number of calls made on one cursor.
MaxOps == 3

CursorLexemes == {"X", "{", "}", ";"}

RECURSIVE Queues(_)
\* The lexeme lists of length at most n over CursorLexemes.
Queues(n) ==
  IF n = 0 THEN {<<>>}
  ELSE LET shorter == Queues(n - 1)
       IN shorter \cup {Append(q, v) : q \in shorter, v \in CursorLexemes}

\* The expected lists the calls are made with: any token, or `;` and `}`.
ExpectedLists == {<<>>, <<TKN_SEP, TKN_BLOCK_CLS>>}

InitCursor ==
  /\ tokens \in {Lex(q, 0) : q \in Queues(MaxQueue)}
  /\ pureOnly \in BOOLEAN
  /\ calls = <<>>
  /\ program = Null
  /\ input = nil
  /\ store = EmptyStore
  /\ commandStack = <<>>
  /\ pc = "idle"
  /\ steps = 0
  /\ runs = 0
  /\ outputs = <<>>
  /\ stmt = Null
  /\ value = Null
  /\ pad = Null
  /\ decoded = Null
  /\ reencoded = Null
  /\ state = Null
  /\ outcome = Null
  /\ heap = Null

\* The record of a call `op` made with `expected` on the cursor `before`.
Called(op, expected, before, status, tok) ==
  [op |-> op, expected |-> expected, before |-> before, status |-> status,
   tok |-> tok, count |-> IF outcome = Null THEN 1 ELSE outcome.count + 1]

\* A call may be made on the cursor.
Callable == state # Null /\ (IF outcome = Null THEN TRUE ELSE outcome.count < MaxOps)

\* The cursor `after` and the record `rec` of the call that led to it.
CursorStep(after, rec) ==
  /\ state' = after
  /\ tokens' = after.tokens
  /\ outcome' = rec
  /\ UNCHANGED <<pureOnly, calls, interpreterVars, stmt, value, padVars, heap>>

\* new StateManager(tokens)
NewState ==
  /\ state = Null
  /\ state' = NewStateManager(tokens)
  /\ UNCHANGED <<parserVars, interpreterVars, stmt, value, padVars, outcome, heap>>

\* state.expect(...expected)
Expect ==
  /\ Callable
  /\ \E e \in ExpectedLists : \E r \in {expect(state, e)} :
       CursorStep(r.st, Called("expect", e, state, r.status, r.tok))

\* state.next()
NextToken ==
  /\ Callable
  /\ \E r \in {next(state)} :
       CursorStep(r.st, Called("next", <<>>, state, "none", r.tok))

\* state.peek()
Peek ==
  /\ Callable
  /\ CursorStep(state, Called("peek", <<>>, state, "none", peek(state)))

\* state.consumeUntil(`;`, `}`)
ConsumeUntil ==
  /\ Callable
  /\ CursorStep(consumeUntil(state, <<TKN_SEP, TKN_BLOCK_CLS>>),
                Called("consumeUntil", <<TKN_SEP, TKN_BLOCK_CLS>>, state, "none", Null))

\* state.unexpectedEOI(`}`), as the parser functions call it once peek() or
\* next() has returned null.
UnexpectedEOI ==
  /\ Callable
  /\ state.tokens = <<>>
  /\ CursorStep(unexpectedEOI(state, <<TKN_BLOCK_CLS>>),
                Called("unexpectedEOI", <<TKN_BLOCK_CLS>>, state, "none", Null))

NextCursor == NewState \/ Expect \/ NextToken \/ Peek \/ ConsumeUntil \/ UnexpectedEOI

SpecCursor == InitCursor /\ [][NextCursor]_vars

\* ------------------------------------------------------------------------
\* Properties
\* ------------------------------------------------------------------------
\* The lexemes of a token list.
Lexemes(toks) == [i \in 1..Len(toks) |-> toks[i].value]

\* The first parser() call was given the program text `src`.
Parsed(src) == calls # <<>> /\ Lexemes(calls[1].given) = src

\* The child slots of an AST node, missing ones included.
Children(n) ==
  IF n.type = "operation" THEN n.args
  ELSE IF n.type = "assign" THEN <<n.ident, n.arg>>
  ELSE IF n.type = "cond" THEN <<n.condition>> \o n.if \o n.else
  ELSE IF n.type = "loop" THEN <<n.condition>> \o n.body
  ELSE IF n.type = "switch" THEN <<n.condition>> \o n.cases \o <<n.default>>
  ELSE IF n.type = "switch_case" THEN <<n.cond>> \o n.body
  ELSE IF n.type = "switch_default" THEN n.body
  ELSE IF n.type = "program" THEN <<n.name, n.input, n.output>> \o n.body
  ELSE <<>>

RECURSIVE DeepComplete(_)
\* The node is present and it and its whole extent are complete.
DeepComplete(n) ==
  /\ n # Null
  /\ \/ n.type \in {"identifier", "tree"}
     \/ /\ n.complete
        /\ \A i \in 1..Len(Children(n)) : DeepComplete(Children(n)[i])

RECURSIVE FlagsSound(_)
\* Every node of the tree that is flagged complete is DeepComplete.
FlagsSound(n) ==
  \/ n = Null
  \/ /\ (n.type \notin {"identifier", "tree"} /\ n.complete) => DeepComplete(n)
     /\ \A i \in 1..Len(Children(n)) : FlagsSound(Children(n)[i])

\* C1 (as claimed): whenever the parser returns a program with
\* complete = true, the returned error list is empty.
C1_CompleteImpliesNoErrors ==
  \A i \in 1..Len(calls) : calls[i].ast.complete => calls[i].errors = <<>>

\* C2 (as claimed): whenever the parser returns a program with
\* complete = false, the returned error list holds at least one error.
C2_PartialImpliesError ==
  \A i \in 1..Len(calls) : ~calls[i].ast.complete => calls[i].errors # <<>>

\* C3 (as claimed): in every AST the parser returns, a node flagged complete
\* has no missing child slot and its whole extent is flagged complete.
C3_CompleteNodesAreDeepComplete ==
  \A i \in 1..Len(calls) : FlagsSound(calls[i].ast)

GoodStatements == {<<"Y", ":=", "X">>, <<"Z", ":=", "hd", "X">>}
BrokenStatements == {<<"Y", ":=">>}

\* The statement list holds, at index k, a complete assignment to `name`.
AssignsAt(body, k, name) ==
  /\ k <= Len(body)
  /\ body[k] # Null
  /\ body[k].type = "assign"
  /\ body[k].complete
  /\ body[k].ident.value = name

\* C4 (as claimed): when exactly one statement of a `;`-separated list is
\* broken, the statements before and after it are still parsed and appear in
\* the block's statement list.
C4_SiblingsSurviveBrokenStatement ==
  \A g \in GoodStatements, b \in BrokenStatements :
    /\ Parsed(GoodIntro \o g \o <<";">> \o b \o GoodOutro)
         => /\ Len(calls[1].ast.body) = 2
            /\ AssignsAt(calls[1].ast.body, 1, g[1])
    /\ Parsed(GoodIntro \o b \o <<";">> \o g \o GoodOutro)
         => /\ Len(calls[1].ast.body) = 2
            /\ AssignsAt(calls[1].ast.body, 2, g[1])

\* C5 (as claimed): a program that is valid except for an assignment whose
\* right-hand side is missing, followed by `;` or by `}`, yields exactly one
\* error, complete = false and an assignment node whose arg slot is missing.
C5_OneBrokenPointOneError ==
  \A rest \in {<<>>, <<";">>, <<";", "Z", ":=", "hd", "X">>} :
    Parsed(GoodIntro \o <<"Y", ":=">> \o rest \o GoodOutro)
      => /\ Len(calls[1].errors) = 1
         /\ ~calls[1].ast.complete
         /\ calls[1].ast.body # <<>>
         /\ calls[1].ast.body[1] # Null
         /\ calls[1].ast.body[1].type = "assign"
         /\ calls[1].ast.body[1].arg = Null

\* C6 (as claimed): a block whose last statement is followed by `;` right
\* before the closing `}` parses with no diagnostic and no extra entry in its
\* statement list, and the tokens after the `}` are parsed normally.
C6_TrailingSeparatorTolerated ==
  \A g \in GoodStatements :
    Parsed(GoodIntro \o g \o <<";">> \o GoodOutro)
      => /\ calls[1].errors = <<>>
         /\ Len(calls[1].ast.body) = 1
         /\ AssignsAt(calls[1].ast.body, 1, g[1])
         /\ calls[1].ast.output # Null
         /\ calls[1].ast.complete

\* C7 (as claimed): two successive parser() calls on the same token list
\* object return equal (ast, errors).
C7_RepeatedParseAgrees ==
  Len(calls) >= 2 =>
    /\ calls[2].ast = calls[1].ast
    /\ calls[2].errors = calls[1].errors

\* C8: the parser never raises; every call returns a program AST and an
\* error list, whatever the token list and the option.
C8_ParserNeverRaises ==
  \A i \in 1..Len(calls) :
    /\ ~calls[i].raised
    /\ calls[i].ast.type = "program"

\* A call on a token list that left a missing statement in the body, and a
\* call on the empty list, have both returned.
C8_Witness ==
  /\ Len(calls) = 2
  /\ \E k \in 1..Len(calls[1].ast.body) : calls[1].ast.body[k] = Null
  /\ calls[2].given = <<>>
  /\ ~calls[1].raised /\ ~calls[2].raised

\* C9 (as claimed): at the start of every run() the store holds exactly the
\* binding of the input variable to the input tree, and all the run() calls
\* of one instance return the same tree.
C9_RunStartsFromInputBinding ==
  /\ (pc = "running" /\ steps = 0)
       => store = storeSet(EmptyStore, program.input.value, input)
  /\ \A i, j \in 1..Len(outputs) : outputs[i] = outputs[j]

\* C10 (as claimed): run() on a program the parser returned with
\* complete = true never ends in a thrown error.
C10_RunNeverThrows == pc # "thrown"

\* The expression is an application of the operation `name`.
IsOp(e, name) == e.type = "operation" /\ e.op.value = name

\* C11 (as claimed): evaluating a tree-literal node, as a whole expression or
\* as an argument of hd, tl or cons, yields its embedded tree.
C11_TreeLiteralYieldsItsTree ==
  value # Null =>
    LET e == value.expr
    IN /\ e.type = "tree" => (~value.thrown /\ value.tree = e.tree)
       /\ (e.type = "operation" /\ \A i \in 1..Len(e.args) : e.args[i].type = "tree")
            => /\ ~value.thrown
               /\ value.tree = applyOp(e.op.value,
                                       [i \in 1..Len(e.args) |-> Literal(e.args[i].tree)])

\* The evaluated expression is op(cons A B), op being hd or tl, and A and B
\* evaluate without error in the store at hand.
SelectsFromCons(op) ==
  /\ value # Null
  /\ IsOp(value.expr, op)
  /\ IsOp(value.expr.args[1], "cons")
  /\ \A i \in 1..2 : ~_evalExpr(value.expr.args[1].args[i], store).thrown

\* The evaluated expression is op(E), op being hd or tl, and E evaluates to nil.
SelectsFromNil(op) ==
  /\ value # Null
  /\ IsOp(value.expr, op)
  /\ value.expr.args[1] # Null
  /\ ~_evalExpr(value.expr.args[1], store).thrown
  /\ _evalExpr(value.expr.args[1], store).tree = nil

\* C12: hd(cons a b) = a, tl(cons a b) = b, hd(nil) = nil and tl(nil) = nil,
\* in any store, a and b being the values of the arguments of cons; hd and tl
\* of nil do not throw.
C12_SemanticEquations ==
  /\ SelectsFromCons("hd") =>
       /\ ~value.thrown
       /\ value.tree = _evalExpr(value.expr.args[1].args[1], store).tree
  /\ SelectsFromCons("tl") =>
       /\ ~value.thrown
       /\ value.tree = _evalExpr(value.expr.args[1].args[2], store).tree
  /\ SelectsFromNil("hd") => (~value.thrown /\ value.tree = nil)
  /\ SelectsFromNil("tl") => (~value.thrown /\ value.tree = nil)

\* hd(cons X Y) has been evaluated in a store where X and Y hold different
\* trees, none of them nil.
C12_Witness ==
  /\ SelectsFromCons("hd")
  /\ value.expr.args[1].args[1].value = "X"
  /\ value.expr.args[1].args[2].value = "Y"
  /\ storeGet(store, "X") = <<nil, nil>>
  /\ storeGet(store, "Y") = <<<<nil, nil>>, nil>>
  /\ value.tree = <<nil, nil>>

RECURSIVE Decode(_)
\* The natural a tree encodes: the length of its right spine.
Decode(t) == IF t = nil THEN 0 ELSE 1 + Decode(t[2])

\* The iterations run()'s loop makes on the add program for the input
\* (encode(m), encode(n)): five to reach the while loop, five per round of
\* the loop, one for the loop's last test.
AddSteps(m) == 5 + 5 * m + 1

\* C13: on the input (encode(m), encode(n)) every run() of the add program
\* terminates and returns encode(m + n). Termination: while the call runs
\* its loop either iterates or exits, and it never makes more than
\* AddSteps(m) iterations.
C13_AddReturnsSum ==
  /\ pc = "returned"
       => /\ outputs[Len(outputs)] = _numToTree(Decode(input[1]) + Decode(input[2]))
          /\ steps = AddSteps(Decode(input[1]))
  /\ pc = "running"
       => /\ steps <= AddSteps(Decode(input[1]))
          /\ (commandStack = <<>>) <=> (steps = AddSteps(Decode(input[1])))
  /\ pc # "thrown"

\* The add program has returned encode(5) on (encode(3), encode(2)).
C13_Witness ==
  /\ pc = "returned"
  /\ input = <<_numToTree(3), _numToTree(2)>>
  /\ outputs[Len(outputs)] = _numToTree(5)
  /\ calls[1].errors = <<>>

\* C14: a program with an empty body whose output variable is its input
\* variable returns its input tree, on every run().
C14_IdentityReturnsInput ==
  (/\ program # Null
   /\ program.body = <<>>
   /\ program.output.value = program.input.value)
    => /\ pc # "thrown"
       /\ \A i \in 1..Len(outputs) : outputs[i] = input

\* `p read X { } write X` has been run twice on ((nil, nil), nil).
C14_Witness ==
  /\ Parsed(<<"p", "read", "X", "{", "}", "write", "X">>)
  /\ program # Null
  /\ input = <<<<nil, nil>>, nil>>
  /\ outputs = <<input, input>>

\* The command on top of the stack assigns the value of an identifier that
\* the store does not bind.
ReadsUnsetVariable ==
  /\ pc = "running"
  /\ commandStack # <<>>
  /\ commandStack[Len(commandStack)] # Null
  /\ commandStack[Len(commandStack)].type = "assign"
  /\ commandStack[Len(commandStack)].arg # Null
  /\ commandStack[Len(commandStack)].arg.type = "identifier"
  /\ commandStack[Len(commandStack)].arg.value \notin DOMAIN store

\* C15: a variable the store does not bind reads as nil: an identifier
\* expression naming it evaluates to nil (the assignment executed on it
\* stores nil), and run() returns nil when it is the output variable.
C15_UnsetVariableIsNil ==
  /\ [][ReadsUnsetVariable
          => /\ pc' = "running"
             /\ store'[commandStack[Len(commandStack)].ident.value] = nil]_vars
  /\ []((pc = "returned" /\ program.output.value \notin DOMAIN store)
         => outputs[Len(outputs)] = nil)

\* `p read X { Z := Y } write Y` has run: Z was assigned the value of the
\* unset Y, and the unset Y was returned.
C15_Witness ==
  /\ Parsed(GoodIntro \o <<"Z", ":=", "Y">> \o GoodOutro)
  /\ pc = "returned"
  /\ DOMAIN store = {"X", "Z"}
  /\ input # nil
  /\ store["Z"] = nil
  /\ outputs[Len(outputs)] = nil

\* Conditions and closed blocks an `if` statement is written with.
IfConditions == {<<"X">>, <<"hd", "X">>, <<"1">>, <<"hd", ")">>}
ClosedBlocks ==
  {<<"{", "}">>, <<"{", "Y", ":=", "X", "}">>,
   <<"{", "Y", ":=", "X", ";", "X", ":=", "tl", "X", "}">>}

\* _readStmt on `if c b` followed by f gives what it gives on
\* `if c b else { }` followed by f, and leaves f in the queue.
ElseAgreement(c, b, f) ==
  (stmt # Null /\ Lexemes(tokens) = <<"if">> \o c \o b \o f)
    => LET w == _readStmt(NewStateManager(
                             Lex(<<"if">> \o c \o b \o <<"else", "{", "}">> \o f, 0)),
                          [pureOnly |-> pureOnly])
       IN /\ stmt.node = w.node
          /\ stmt.status = w.status
          /\ stmt.node.else = <<>>
          /\ stmt.st.errors = w.st.errors
          /\ Lexemes(stmt.st.tokens) = f

\* C16 (as claimed): an `if E { B }` with no else parses to the node of
\* `if E { B } else { }`: empty else branch, no diagnostic for the absent
\* else, not partial because of it, the following token left unconsumed.
C16_MissingElseIsEmptyElse ==
  \A c \in IfConditions, b \in ClosedBlocks, f \in Follows : ElseAgreement(c, b, f)

\* C16 (as amended): the same, for an `if E { B }` that is followed by a
\* token.
C16_MissingElseBeforeAToken ==
  \A c \in IfConditions, b \in ClosedBlocks, f \in Follows \ {<<>>} :
    ElseAgreement(c, b, f)

\* `if X { Y := X } ;` has been read: a complete node with an empty else
\* branch, no error, and the `;` still in the queue.
C16_Witness ==
  /\ stmt # Null
  /\ Lexemes(tokens) = <<"if", "X", "{", "Y", ":=", "X", "}", ";">>
  /\ stmt.node.complete
  /\ stmt.node.else = <<>>
  /\ stmt.st.errors = <<>>
  /\ Lexemes(stmt.st.tokens) = <<";">>

RECURSIVE HasNodeOfType(_, _)
\* The tree of nodes under n holds a node of the given type.
HasNodeOfType(n, type) ==
  /\ n # Null
  /\ \/ n.type = type
     \/ \E i \in 1..Len(Children(n)) : HasNodeOfType(Children(n)[i], type)

\* The diagnostic _readExpr records for a token that starts no expression.
NumberDiagnostic(tok) ==
  [position |-> tok.pos,
   message |-> "Unexpected token \"" \o tok.value
               \o "\": Expected an expression or an identifier"]

\* The diagnostic _readStmt records for a token that starts no statement.
StatementDiagnostic(tok) ==
  [position |-> tok.pos,
   message |-> "Unexpected token: Expected if while or an assignment statement"]

Recorded(errors) == {errors[i] : i \in 1..Len(errors)}

RECURSIVE IsNumeral(_)
\* The tree is nil or (nil, numeral).
IsNumeral(t) == t = nil \/ (t[1] = nil /\ IsNumeral(t[2]))

\* The statement read is an assignment, an if or a while; every number token
\* of these statement texts stands in expression position.
ReadsExpressions ==
  stmt # Null /\ tokens # <<>> /\ tokens[1].value \in {"Y", "if", "while"}

\* Index of the token that starts the statement's expression.
ExprStart == IF tokens[1].value = "Y" THEN 3 ELSE 2

\* The statement's expression is a single number token.
ExprIsNumber ==
  /\ ReadsExpressions
  /\ Len(tokens) >= ExprStart
  /\ tokens[ExprStart].type = "number"

\* The node slot the statement's expression is stored in.
ExprSlot(n) == IF n.type = "assign" THEN n.arg ELSE n.condition

ReadsSwitch == stmt # Null /\ tokens # <<>> /\ tokens[1].value = TKN_SWITCH

\* C17, the part on pureOnly = true and on number tokens: with pureOnly =
\* true every number token in expression position records a diagnostic and
\* yields no node, and `switch` in statement position records a diagnostic
\* and yields no node; with pureOnly = false a number token n parses to a
\* tree literal holding encode(n).
DialectGate ==
  /\ (pureOnly /\ ReadsExpressions)
       => /\ \A i \in 1..Len(tokens) :
               tokens[i].type = "number"
                 => NumberDiagnostic(tokens[i]) \in Recorded(stmt.st.errors)
          /\ ~HasNodeOfType(stmt.node, "tree")
  /\ (pureOnly /\ ExprIsNumber) => ExprSlot(stmt.node) = Null
  /\ (pureOnly /\ ReadsSwitch)
       => /\ stmt.node = Null
          /\ stmt.st.errors = <<StatementDiagnostic(tokens[1])>>
  /\ (~pureOnly /\ ExprIsNumber)
       => /\ ExprSlot(stmt.node) # Null
          /\ ExprSlot(stmt.node).type = "tree"
          /\ IsNumeral(ExprSlot(stmt.node).tree)
          /\ Decode(ExprSlot(stmt.node).tree) = NumValue(tokens[ExprStart].value)
          /\ NumberDiagnostic(tokens[ExprStart]) \notin Recorded(stmt.st.errors)

\* The input ends before a token is read in the place of the switch's `{`.
SwitchHeaderCut ==
  _readExpr(next(NewStateManager(tokens)).st, [pureOnly |-> pureOnly]).st.tokens = <<>>

\* C17 (as claimed): DialectGate, and with pureOnly = false `switch` parses
\* to a switch node.
C17_DialectGate ==
  /\ DialectGate
  /\ (~pureOnly /\ ReadsSwitch) => (stmt.node # Null /\ stmt.node.type = "switch")

\* C17 (as amended): DialectGate, and with pureOnly = false `switch` parses
\* to a switch node unless the input ends before the opening brace of the
\* switch, in which case no node is returned.
C17_DialectGateUnlessCut ==
  /\ DialectGate
  /\ (~pureOnly /\ ReadsSwitch)
       => IF SwitchHeaderCut THEN stmt.node = Null
          ELSE stmt.node # Null /\ stmt.node.type = "switch"

\* `Y := cons 2 0` has been read with pureOnly = true: two diagnostics and
\* an operation node with both arguments missing.
C17_Witness ==
  /\ stmt # Null
  /\ pureOnly
  /\ Lexemes(tokens) = <<"Y", ":=", "cons", "2", "0">>
  /\ Len(stmt.st.errors) = 2
  /\ stmt.node.arg.args = <<Null, Null>>

\* The condition of the while statement at hand, as _readExpr reads it.
WhileCondition ==
  _readExpr(next(NewStateManager(tokens)).st, [pureOnly |-> pureOnly])

\* The body of the while statement at hand, as _readBlock reads it.
WhileBody == _readBlock(WhileCondition.st, [pureOnly |-> pureOnly])

\* C20 (as claimed): a while node has complete = true if and only if its
\* condition is present and complete and its body block parsed with status OK.
C20_WhileCompleteIffBothComplete ==
  (stmt # Null /\ tokens # <<>> /\ tokens[1].value = TKN_WHILE)
    => /\ stmt.node.type = "loop"
       /\ stmt.node.complete
            <=> /\ WhileCondition.node # Null
                /\ exprComplete(WhileCondition.node)
                /\ WhileBody.status = OK

RECURSIVE TextVariables(_)
\* The variable occurrences of a token list, in the order of the text.
TextVariables(toks) ==
  IF toks = <<>> THEN <<>>
  ELSE (IF Head(toks).type = "identifier" /\ Head(toks).value # "nil"
        THEN <<Head(toks).value>> ELSE <<>>)
       \o TextVariables(Tail(toks))

\* The rank of the first occurrence of v in the sequence: the number of
\* distinct elements that occur before it.
FirstOccurrenceRank(seq, v) ==
  LET first == CHOOSE i \in 1..Len(seq) :
                 seq[i] = v /\ \A j \in 1..(i - 1) : seq[j] # v
  IN Cardinality({seq[j] : j \in 1..(first - 1)})

RECURSIVE PadExprIndices(_)
\* The indices of a PAD expression, in the order of the list.
PadExprIndices(e) ==
  IF e.tag = "var" THEN <<e.idx>>
  ELSE IF e.tag = "quote" THEN <<>>
  ELSE IF e.tag = "cons" THEN PadExprIndices(e.left) \o PadExprIndices(e.right)
  ELSE PadExprIndices(e.arg)

RECURSIVE PadListIndices(_)
\* The indices of a PAD command list, in the order of the list.
PadListIndices(list) ==
  IF list = <<>> THEN <<>>
  ELSE (IF Head(list).tag = ":="
        THEN <<Head(list).idx>> \o PadExprIndices(Head(list).expr)
        ELSE IF Head(list).tag = "if"
        THEN PadExprIndices(Head(list).cond) \o PadListIndices(Head(list).then)
             \o PadListIndices(Head(list).else)
        ELSE PadExprIndices(Head(list).cond) \o PadListIndices(Head(list).body))
       \o PadListIndices(Tail(list))

\* Every index of a PAD program, in the order of the list.
PadIndexSeq(d) == <<d.input>> \o PadListIndices(d.body) \o <<d.output>>

\* `pad` is to_pad of the program parsed from the text calls[1].given.
EncodedFromText ==
  /\ pad # Null
  /\ calls # <<>>
  /\ calls[1].ast.complete
  /\ calls[1].errors = <<>>

\* The variable occurrences of the program text, the program name left out.
ProgramVariables == TextVariables(Tail(calls[1].given))

\* C18: to_pad gives the input variable index 0 and every other variable
\* the next unused index in order of its first occurrence in the program
\* text, the same index at every occurrence.
C18_IndicesFollowFirstOccurrence ==
  EncodedFromText =>
    /\ Len(PadIndexSeq(pad)) = Len(ProgramVariables)
    /\ \A k \in 1..Len(ProgramVariables) :
         PadIndexSeq(pad)[k] = FirstOccurrenceRank(ProgramVariables, ProgramVariables[k])
    /\ pad.input = 0

\* `p read X { if Z { Y := X } } write Y` has been encoded: Z, met first in
\* a nested condition, is 1 and Y is 2.
C18_Witness ==
  /\ EncodedFromText
  /\ Lexemes(calls[1].given)
       = <<"p", "read", "X", "{", "if", "Z", "{", "Y", ":=", "X", "}", "}", "write", "Y">>
  /\ pad = PProgram(0, <<PIf(PVar(1), <<PAssign(2, PVar(0))>>, <<>>)>>, 2)

\* The names the claim gives to the indices 0, 1, 2, ...
Letters == <<"A", "B", "C", "D", "E", "F", "G", "H">>

RenamedIdent(t, f) ==
  [type |-> "identifier", value |-> IF t.value = "nil" THEN "nil" ELSE f[t.value]]

RECURSIVE RenamedExpr(_, _)
\* The expression with its variables renamed by f and its positions dropped.
RenamedExpr(e, f) ==
  IF e.type = "identifier" THEN RenamedIdent(e, f)
  ELSE [type |-> "operation", complete |-> e.complete,
        op |-> [type |-> e.op.type, value |-> e.op.value],
        args |-> [i \in 1..Len(e.args) |-> RenamedExpr(e.args[i], f)]]

RECURSIVE RenamedList(_, _)
\* The statement list with its variables renamed by f.
RenamedList(list, f) ==
  [i \in 1..Len(list) |->
     IF list[i].type = "assign"
     THEN [type |-> "assign", complete |-> list[i].complete,
           ident |-> RenamedIdent(list[i].ident, f),
           arg |-> RenamedExpr(list[i].arg, f)]
     ELSE IF list[i].type = "cond"
     THEN [type |-> "cond", complete |-> list[i].complete,
           condition |-> RenamedExpr(list[i].condition, f),
           if |-> RenamedList(list[i].if, f), else |-> RenamedList(list[i].else, f)]
     ELSE [type |-> "loop", complete |-> list[i].complete,
           condition |-> RenamedExpr(list[i].condition, f),
           body |-> RenamedList(list[i].body, f)]]

\* The program with its variables renamed by f and the given name.
Renamed(p, f, name) ==
  [type |-> "program", complete |-> p.complete,
   name |-> [type |-> "identifier", value |-> name],
   input |-> RenamedIdent(p.input, f), output |-> RenamedIdent(p.output, f),
   body |-> RenamedList(p.body, f)]

\* The renaming of the program's variables: the one of index i becomes the
\* i-th letter.
IndexRenaming ==
  [v \in {ProgramVariables[k] : k \in 1..Len(ProgramVariables)} |->
     Letters[FirstOccurrenceRank(ProgramVariables, v) + 1]]

\* from_pad(to_pad(p)) is p with its variables renamed by index and its
\* name replaced, for the complete pure-dialect program p parsed from the text.
DecodedIsRenamed ==
  (EncodedFromText /\ decoded # Null /\ ~HasNodeOfType(calls[1].ast, "tree"))
    => decoded = Renamed(calls[1].ast, IndexRenaming, decoded.name.value)

\* The PAD value numbers its indices in order of first occurrence, from 0
\* for the input.
FirstOccurrenceNumbered(d) ==
  \A k \in 1..Len(PadIndexSeq(d)) :
    PadIndexSeq(d)[k] = FirstOccurrenceRank(PadIndexSeq(d), PadIndexSeq(d)[k])

\* C19 (as claimed): from_pad(to_pad(p)) equals p up to the renaming of
\* variables by index and of the program name, and to_pad(from_pad(d)) = d
\* for every PAD value d.
C19_RoundTrip ==
  /\ DecodedIsRenamed
  /\ reencoded # Null => reencoded = pad

\* C19 (as amended): the same, with to_pad(from_pad(d)) = d for the PAD
\* values d that number their indices in order of first occurrence.
C19_RoundTripOfNumbered ==
  /\ DecodedIsRenamed
  /\ (reencoded # Null /\ FirstOccurrenceNumbered(pad)) => reencoded = pad

\* `p read X { Z := cons hd X Y } write Y` has been encoded, decoded to a
\* program over A, B, C and encoded again to the same PAD value.
C19_Witness ==
  /\ EncodedFromText
  /\ Lexemes(calls[1].given)
       = <<"p", "read", "X", "{", "Z", ":=", "cons", "hd", "X", "Y", "}", "write", "Y">>
  /\ reencoded = pad
  /\ decoded.input.value = "A"
  /\ decoded.body[1].ident.value = "B"
  /\ decoded.output.value = "C"

\* The diagnostics expect() records for a brace that is not matched.
BraceDiagnostic(brace) ==
  {"Unexpected end of input: Expected \"" \o brace \o "\""}
  \cup {"Unexpected token \"" \o v \o "\": Expected \"" \o brace \o "\"" :
          v \in Vocabulary \cup {"0", "2", "Z"}}

\* C21 (as claimed): a switch node is returned with complete = true and
\* status OK only if its condition is present and complete, its `{` and `}`
\* were both matched, and every case and the default clause are complete.
C21_SwitchCompleteOnlyIfPartsComplete ==
  (/\ stmt # Null
   /\ stmt.node # Null
   /\ stmt.node.type = "switch"
   /\ stmt.node.complete)
    => /\ stmt.status = OK
       /\ DeepComplete(stmt.node.condition)
       /\ \A i \in 1..Len(stmt.node.cases) : stmt.node.cases[i].complete
       /\ stmt.node.default.complete
       /\ \A i \in 1..Len(stmt.st.errors) :
            stmt.st.errors[i].message
              \notin BraceDiagnostic(TKN_BLOCK_OPN) \cup BraceDiagnostic(TKN_BLOCK_CLS)

\* C22: expect(E) on a non-empty queue removes exactly the head token; it
\* returns OK and the head with no new diagnostic when the head's value is in
\* E or E is empty, and ERROR with exactly one new diagnostic otherwise; on an
\* empty queue it returns EOI with exactly one new diagnostic and the queue
\* stays empty. Diagnostics recorded before the call are kept.
C22_ExpectOutcomes ==
  (outcome # Null /\ outcome.op = "expect") =>
    LET before == outcome.before
        head == Head(before.tokens)
    IN IF before.tokens # <<>>
       THEN /\ state.tokens = Tail(before.tokens)
            /\ outcome.tok = head
            /\ IF outcome.expected = <<>> \/ InSeq(head.value, outcome.expected)
               THEN outcome.status = OK /\ state.errors = before.errors
               ELSE /\ outcome.status = ERROR
                    /\ Len(state.errors) = Len(before.errors) + 1
                    /\ SubSeq(state.errors, 1, Len(before.errors)) = before.errors
       ELSE /\ state.tokens = <<>>
            /\ outcome.tok = Null
            /\ outcome.status = EOI
            /\ Len(state.errors) = Len(before.errors) + 1
            /\ SubSeq(state.errors, 1, Len(before.errors)) = before.errors

\* expect(`;`, `}`) met `X` on a cursor that held one diagnostic: it consumed
\* the token and recorded the second diagnostic.
C22_Witness ==
  /\ outcome # Null
  /\ outcome.op = "expect"
  /\ outcome.expected = <<TKN_SEP, TKN_BLOCK_CLS>>
  /\ outcome.before.tokens # <<>>
  /\ Head(outcome.before.tokens).value = "X"
  /\ Len(outcome.before.errors) = 1
  /\ outcome.status = ERROR
  /\ Len(state.errors) = 2

\* The expected lists the parser reports the end of the input with.
EndOfInputExpected ==
  {<<TKN_BLOCK_OPN>>, <<TKN_BLOCK_CLS>>, <<TKN_ASSGN>>, <<TKN_COLON>>,
   <<TKN_PREN_CLS>>, <<TKN_SEP, TKN_BLOCK_CLS>>, <<TKN_READ>>, <<TKN_WRITE>>,
   <<"identifier">>}

\* The messages of the diagnostics recorded because the queue is exhausted.
EndOfInputMessages ==
  {unexpectedEOI(NewStateManager(<<>>), e).errors[1].message : e \in EndOfInputExpected}
  \cup {"Unexpected end of input: Missing input variable",
        "Unexpected end of input: Missing program name"}

\* The position directly after the last token of a list.
AfterLast(toks) ==
  IF toks = <<>> THEN [row |-> 0, col |-> 0]
  ELSE incrementPos(toks[Len(toks)].pos, toks[Len(toks)].value)

\* C23 (as claimed): every diagnostic recorded because the token stream is
\* exhausted carries the position directly after the last consumed token,
\* however many times the cursor was read at the end of the input before.
C23_EndOfInputPositionIsStable ==
  \A i \in 1..Len(calls) : \A k \in 1..Len(calls[i].errors) :
    calls[i].errors[k].message \in EndOfInputMessages
      => calls[i].errors[k].position = AfterLast(calls[i].given)

\* C28: the parser's loops make progress. Every iteration of the
\* statement-list loop, of the switch clause loop and of consumeUntil that
\* begins with tokens in the queue removes at least one before the next
\* iteration begins; an iteration that begins on the empty queue is the last
\* one of the call; so a call makes no more iterations than it was given
\* tokens, and every call returns.
C28_LoopsConsumeOrExit ==
  \A i \in 1..Len(calls) :
    /\ \A k \in 1..(Len(calls[i].loops) - 1) :
         /\ calls[i].loops[k].left > 0
         /\ calls[i].loops[k + 1].left < calls[i].loops[k].left
    /\ Len(calls[i].loops) <= Len(calls[i].given)
    /\ \A k \in 1..Len(calls[i].loops) :
         calls[i].loops[k].left <= Len(calls[i].given)

\* One call has gone through the three loops: the clause loop, the
\* statement-list loop twice, and consumeUntil twice.
C28_Witness ==
  /\ calls # <<>>
  /\ \E k \in 1..Len(calls[1].loops) : calls[1].loops[k].loop = "_readSwitch"
  /\ Cardinality({k \in 1..Len(calls[1].loops) :
                    calls[1].loops[k].loop = "_readStatementList"}) >= 2
  /\ Cardinality({k \in 1..Len(calls[1].loops) :
                    calls[1].loops[k].loop = "consumeUntil"}) >= 2

\* C27 (as claimed): the tree run() returns is the value an identifier
\* expression naming the output variable has in the final store, whatever
\* the name of the output variable, `nil` included.
C27_OutputIsValueOfOutputIdentifier ==
  pc = "returned" =>
    /\ ~_evalExpr(program.output, store).thrown
    /\ outputs[Len(outputs)] = _evalExpr(program.output, store).tree

\* run() is about to execute an assign frame, and does so without throwing.
ExecutesAssign ==
  /\ commandStack # <<>>
  /\ commandStack[Len(commandStack)] # Null
  /\ commandStack[Len(commandStack)].type = "assign"
  /\ pc' = "running"

\* C26: during run() the store changes only when an assign frame is
\* executed, and then only the binding of the assigned identifier changes,
\* to the value of the right-hand side in the store before the step;
\* block, cond and loop frames, expression evaluation, a throwing
\* assignment and the return leave the store as it is.
C26_StoreChangesOnlyByAssignment ==
  [][pc = "running" =>
       IF ExecutesAssign
       THEN LET op == commandStack[Len(commandStack)]
            IN /\ DOMAIN store' = DOMAIN store \cup {op.ident.value}
               /\ store'[op.ident.value] = _evalExpr(op.arg, store).tree
               /\ \A n \in DOMAIN store \ {op.ident.value} : store'[n] = store[n]
       ELSE store' = store]_vars

\* `p read X { Y := X } write Y` has run on a non-nil tree: Y was bound and
\* the binding of X was kept.
C26_Witness ==
  /\ Parsed(GoodIntro \o <<"Y", ":=", "X">> \o GoodOutro)
  /\ pc = "returned"
  /\ DOMAIN store = {"X", "Y"}
  /\ store["X"] = <<nil, nil>>
  /\ store["Y"] = <<nil, nil>>

RECURSIVE Continuation(_)
\* The commands a command stack still has to execute, in the order in which
\* it will start them: the top frame first, a block frame standing for its
\* commands.
Continuation(stack) ==
  IF stack = <<>> THEN <<>>
  ELSE (IF stack[Len(stack)] # Null /\ stack[Len(stack)].type = "block"
        THEN stack[Len(stack)].body
        ELSE <<stack[Len(stack)]>>)
       \o Continuation(SubSeq(stack, 1, Len(stack) - 1))

RECURSIVE Exec(_, _, _)
\* The meaning of a command list in a store, for at most `fuel` commands:
\* commands run in textual order; a while command tests its condition
\* first, and on a non-nil value runs its whole body, then itself again,
\* then what follows it; on nil it is skipped. `done` tells that the list
\* ran to its end without error within the fuel.
Exec(cmds, st, fuel) ==
  IF cmds = <<>> THEN [done |-> TRUE, store |-> st]
  ELSE IF fuel = 0 \/ Head(cmds) = Null THEN [done |-> FALSE, store |-> st]
  ELSE IF Head(cmds).type = "assign"
  THEN IF _evalExpr(Head(cmds).arg, st).thrown THEN [done |-> FALSE, store |-> st]
       ELSE Exec(Tail(cmds),
                 storeSet(st, Head(cmds).ident.value, _evalExpr(Head(cmds).arg, st).tree),
                 fuel - 1)
  ELSE IF Head(cmds).type = "cond"
  THEN IF _evalExpr(Head(cmds).condition, st).thrown THEN [done |-> FALSE, store |-> st]
       ELSE IF _evalExpr(Head(cmds).condition, st).tree # nil
       THEN Exec(Head(cmds).if \o Tail(cmds), st, fuel - 1)
       ELSE Exec(Head(cmds).else \o Tail(cmds), st, fuel - 1)
  ELSE IF Head(cmds).type = "loop"
  THEN IF _evalExpr(Head(cmds).condition, st).thrown THEN [done |-> FALSE, store |-> st]
       ELSE IF _evalExpr(Head(cmds).condition, st).tree # nil
       THEN Exec(Head(cmds).body \o <<Head(cmds)>> \o Tail(cmds), st, fuel - 1)
       ELSE Exec(Tail(cmds), st, fuel - 1)
  ELSE [done |-> FALSE, store |-> st]

\* What is left of the run comes to the same end before and after a step.
StepKeepsMeaning ==
  (pc = "running" /\ pc' = "running" /\ Exec(Continuation(commandStack), store, MaxSteps).done)
    => Exec(Continuation(commandStack'), store', MaxSteps)
         = Exec(Continuation(commandStack), store, MaxSteps)

\* C25: run() executes the commands of a block in textual order, and a
\* while command by testing its condition before each iteration: non-nil,
\* the whole body with its nested commands runs before the next test and
\* before any command after the loop; nil, the body is not run, the store is
\* unchanged and the run goes on after the loop. Stated against Exec: every
\* step of run() keeps the meaning of what is left to execute, and the first
\* run() of an instance ends in the store Exec gives for the program body.
C25_RunFollowsWhileSemantics ==
  /\ [][StepKeepsMeaning]_vars
  /\ []((pc = "returned" /\ runs = 1)
          => /\ Exec(program.body, storeSet(EmptyStore, program.input.value, input),
                     MaxSteps).done
             /\ Exec(program.body, storeSet(EmptyStore, program.input.value, input),
                     MaxSteps).store = store)

\* `while X { X := tl X } ; Z := hd X` has run on (nil, nil): one round of
\* the loop, a second test, then the command after the loop.
C25_Witness ==
  /\ Parsed(GoodIntro \o <<"while", "X", "{", "X", ":=", "tl", "X", "}">>
                      \o <<";", "Z", ":=", "hd", "X">> \o GoodOutro)
  /\ input = <<nil, nil>>
  /\ pc = "returned"
  /\ steps = 7
  /\ store = [n \in {"X", "Z"} |-> nil]

RECURSIVE DerefExpr(_, _)
\* The expression `e` with its argument lists read from the heap `h`.
DerefExpr(e, h) ==
  IF e = Null THEN Null
  ELSE IF e.type = "operation"
  THEN [e EXCEPT !.args = [i \in 1..Len(h[e.args]) |-> DerefExpr(h[e.args][i], h)]]
  ELSE e

\* The frame run() executes next.
TopFrame == commandStack[Len(commandStack)]

\* Every array of the AST is as the parser built it.
ASTIntact ==
  \A a \in DOMAIN Arrays(program) : heap[a] = Arrays(program)[a]

\* The expression the next step evaluates has the value of the expression
\* the parser built.
EvaluatesOriginal ==
  (commandStack # <<>> /\ TopFrame # Null /\ TopFrame.type \in {"assign", "cond", "loop"})
    => LET e == IF TopFrame.type = "assign" THEN TopFrame.arg ELSE TopFrame.condition
       IN /\ evalExprOnHeap(e, store, heap).thrown
               = _evalExpr(DerefExpr(e, Arrays(program)), store).thrown
          /\ evalExprOnHeap(e, store, heap).tree
               = _evalExpr(DerefExpr(e, Arrays(program)), store).tree

\* A step that starts an iteration of a loop pushes a block holding the
\* whole body the parser built.
LoopRunsFullBody ==
  (/\ pc = "running" /\ pc' = "running"
   /\ commandStack # <<>> /\ TopFrame # Null /\ TopFrame.type = "loop"
   /\ Len(commandStack') > Len(commandStack))
    => /\ commandStack'[Len(commandStack') - 1] = TopFrame
       /\ heap'[commandStack'[Len(commandStack')].body] = Arrays(program)[TopFrame.body]

\* C24: run() leaves the program AST unchanged: after any number of steps of
\* any number of runs, every command list and every argument list of the AST
\* is as it was before the first run; so each iteration of a loop starts on
\* the loop's full body and each evaluation works on the original arguments.
C24_RunLeavesASTUnchanged ==
  /\ [](heap # Null => ASTIntact)
  /\ []((heap # Null /\ pc = "running") => EvaluatesOriginal)
  /\ [][LoopRunsFullBody]_vars

\* `while X { X := tl X }` has run to its end on (nil, (nil, nil)): two
\* iterations of the body, each evaluating `tl X`.
C24_Witness ==
  /\ Parsed(GoodIntro \o <<"while", "X", "{", "X", ":=", "tl", "X", "}">> \o GoodOutro)
  /\ input = <<nil, <<nil, nil>>>>
  /\ heap # Null
  /\ pc = "returned"
  /\ steps = 8
  /\ store["X"] = nil
====
